---- MODULE Spec2Model ----
(***************************************************************************)
(* A model of the RAGAS evaluation service: the model resource cache       *)
(* (models.py), the four metric handler groups (metrics/*_metrics.py) and  *)
(* the evaluation orchestrator and endpoint (app.py).                      *)
(***************************************************************************)
EXTENDS Integers, Sequences, FiniteSets, TLC

VARIABLES
    config,         \* config.Config: the defaults and the configured credentials
    model_manager,  \* models.model_manager: the two cache dictionaries
    nextHandle,     \* identity of the next object a constructor creates
    issued,         \* history: handles returned per cache key since the last clear
    lastCall,       \* history: the last ModelManager call and how it ended
    callers,        \* SpecSuspend only: get_llm calls in progress
    evaluator,      \* app.evaluator: the handlers built by the last initialize_handlers
    req             \* the evaluation calls: inputs, tasks, history and response

vars == <<config, model_manager, nextHandle, issued, lastCall, callers,
          evaluator, req>>

----------------------------------------------------------------------------
(* Bounds *)

\* Handle objects constructed in one behaviour.
MaxHandles == 3

\* Concurrent get_llm callers in SpecSuspend.
NumCallers == 2

----------------------------------------------------------------------------
(* config.py *)

\* Python's None.
NONE == "<none>"

\* Python `x or d`: None and the empty string are falsy.
OrDefault(x, d) == IF x = NONE \/ x = "" THEN d ELSE x

SUPPORTED_MODELS ==
    [openai |->
        [llm |-> {"gpt-4", "gpt-3.5-turbo", "gpt-4-turbo"},
         embeddings |-> {"text-embedding-ada-002", "text-embedding-3-small",
                         "text-embedding-3-large"}],
     anthropic |->
        [llm |-> {"claude-3-opus-20240229", "claude-3-sonnet-20240229",
                  "claude-3-haiku-20240307"},
         embeddings |-> {}]]

\* The Config class attributes read by ModelManager; the two API keys are
\* modelled by whether they are set (truthy).
DefaultConfig(openaiKey, anthropicKey) ==
    [DEFAULT_PROVIDER |-> "openai",
     DEFAULT_LLM_MODEL |-> "gpt-4",
     DEFAULT_EMBEDDING_MODEL |-> "text-embedding-ada-002",
     OPENAI_API_KEY |-> openaiKey,
     ANTHROPIC_API_KEY |-> anthropicKey]

----------------------------------------------------------------------------
(* models.py: ModelManager *)

\* A constructed, wrapped client object: its identity and what it was built for.
Handle(id, key) == [id |-> id, key |-> key]

\* No object (None) where a handle is expected.
NoHandle == [id |-> 0, key |-> NONE]

LlmCacheKey(provider, model_name) == provider \o "_" \o model_name

EmbeddingCacheKey(model_name) == "embeddings_" \o model_name

\* dict[key] = value
DictSet(d, k, v) == [x \in DOMAIN d \cup {k} |-> IF x = k THEN v ELSE d[x]]

EmptyDict == [x \in {} |-> 0]

\* A call that raises: nothing is returned.  `attempts` counts the client
\* constructor invocations the call made.
Raised(error, key, attempts) ==
    [status |-> error, key |-> key, handle |-> NoHandle, constructed |-> FALSE,
     attempts |-> attempts]

Returned(key, handle, constructed) ==
    [status |-> "ok", key |-> key, handle |-> handle, constructed |-> constructed,
     attempts |-> IF constructed THEN 1 ELSE 0]

HasCredential(cfg, provider) ==
    IF provider = "openai" THEN cfg.OPENAI_API_KEY
    ELSE IF provider = "anthropic" THEN cfg.ANTHROPIC_API_KEY
    ELSE FALSE

\* Mutant of GetLlmBegin: the cache key is made of the arguments as given,
\* before the defaults are substituted.
GetLlmBeginRawKey(cache, cfg, provider0, model0) ==
    LET provider == OrDefault(provider0, cfg.DEFAULT_PROVIDER)
        model_name == OrDefault(model0, cfg.DEFAULT_LLM_MODEL)
        cache_key == LlmCacheKey(provider0, model0)
    IN  IF provider \notin DOMAIN SUPPORTED_MODELS
        THEN [done |-> TRUE, res |-> Raised("UnsupportedProvider", cache_key, 0)]
        ELSE IF model_name \notin SUPPORTED_MODELS[provider].llm
        THEN [done |-> TRUE, res |-> Raised("UnsupportedModel", cache_key, 0)]
        ELSE IF cache_key \in DOMAIN cache
        THEN [done |-> TRUE, res |-> Returned(cache_key, cache[cache_key], FALSE)]
        ELSE IF provider \in {"openai", "anthropic"}
        THEN IF ~HasCredential(cfg, provider)
             THEN [done |-> TRUE, res |-> Raised("MissingCredential", cache_key, 0)]
             ELSE [done |-> FALSE, res |-> Raised("pending", cache_key, 0)]
        ELSE [done |-> TRUE, res |-> Raised("NotImplemented", cache_key, 0)]

\* get_llm up to the client constructor call (models.py:29-56): either the call
\* is over (`done`, with its result) or a client is about to be constructed.
GetLlmBegin(cache, cfg, provider0, model0) ==
    LET provider == OrDefault(provider0, cfg.DEFAULT_PROVIDER)
        model_name == OrDefault(model0, cfg.DEFAULT_LLM_MODEL)
        cache_key == LlmCacheKey(provider, model_name)
    IN  IF provider \notin DOMAIN SUPPORTED_MODELS
        THEN [done |-> TRUE, res |-> Raised("UnsupportedProvider", cache_key, 0)]
        ELSE IF model_name \notin SUPPORTED_MODELS[provider].llm
        THEN [done |-> TRUE, res |-> Raised("UnsupportedModel", cache_key, 0)]
        ELSE IF cache_key \in DOMAIN cache
        THEN [done |-> TRUE, res |-> Returned(cache_key, cache[cache_key], FALSE)]
        ELSE IF provider \in {"openai", "anthropic"}
        THEN IF ~HasCredential(cfg, provider)
             THEN [done |-> TRUE, res |-> Raised("MissingCredential", cache_key, 0)]
             ELSE [done |-> FALSE, res |-> Raised("pending", cache_key, 0)]
        ELSE [done |-> TRUE, res |-> Raised("NotImplemented", cache_key, 0)]

\* Mutant of GetLlmFinish: a failed construction leaves a placeholder entry
\* under the key.
GetLlmFinishCachesFailure(cache, cache_key, fresh, ctor) ==
    IF ctor = "raise"
    THEN [res |-> Raised("ConstructionError", cache_key, 1),
          cache |-> DictSet(cache, cache_key, Handle(0, cache_key))]
    ELSE [res |-> Returned(cache_key, Handle(fresh, cache_key), TRUE),
          cache |-> DictSet(cache, cache_key, Handle(fresh, cache_key))]

\* get_llm from the client constructor call on (models.py:49-72): `ctor` is what
\* the constructor does, `fresh` the identity of the object it creates.  The
\* wrapped client is stored under the key and returned.
GetLlmFinish(cache, cache_key, fresh, ctor) ==
    IF ctor = "raise"
    THEN [res |-> Raised("ConstructionError", cache_key, 1), cache |-> cache]
    ELSE [res |-> Returned(cache_key, Handle(fresh, cache_key), TRUE),
          cache |-> DictSet(cache, cache_key, Handle(fresh, cache_key))]

\* Mutant of get_llm: the cache is not consulted, every call constructs.
GetLlmNoCacheCheck(cache, cfg, fresh, provider0, model0, ctor) ==
    LET b == GetLlmBegin(EmptyDict, cfg, provider0, model0)
    IN  IF b.done THEN [res |-> b.res, cache |-> cache]
        ELSE GetLlmFinish(cache, b.res.key, fresh, ctor)

\* ModelManager.get_llm, run without interruption.
get_llm(cache, cfg, fresh, provider0, model0, ctor) ==
    LET b == GetLlmBegin(cache, cfg, provider0, model0)
    IN  IF b.done THEN [res |-> b.res, cache |-> cache]
        ELSE GetLlmFinish(cache, b.res.key, fresh, ctor)

\* ModelManager.get_embeddings.
get_embeddings(cache, cfg, fresh, model0, ctor) ==
    LET model_name == OrDefault(model0, cfg.DEFAULT_EMBEDDING_MODEL)
        cache_key == EmbeddingCacheKey(model_name)
    IN  IF model_name \notin SUPPORTED_MODELS["openai"].embeddings
        THEN [res |-> Raised("UnsupportedModel", cache_key, 0), cache |-> cache]
        ELSE IF cache_key \in DOMAIN cache
        THEN [res |-> Returned(cache_key, cache[cache_key], FALSE), cache |-> cache]
        ELSE IF ~cfg.OPENAI_API_KEY
        THEN [res |-> Raised("MissingCredential", cache_key, 0), cache |-> cache]
        ELSE IF ctor = "raise"
        THEN [res |-> Raised("ConstructionError", cache_key, 1), cache |-> cache]
        ELSE [res |-> Returned(cache_key, Handle(fresh, cache_key), TRUE),
              cache |-> DictSet(cache, cache_key, Handle(fresh, cache_key))]

\* One entry of the history of returned handles.
Issue(kind, res) ==
    IF res.status = "ok"
    THEN {[cache |-> kind, key |-> res.key, handle |-> res.handle]}
    ELSE {}

Bump(n, res) == IF res.constructed THEN n + 1 ELSE n

\* ModelManager.__init__ with _initialize_default_models: get_llm() and then
\* get_embeddings() inside one try; an exception of the first skips the second.
InitModelManager(cfg, ctorLlm, ctorEmb) ==
    LET l == get_llm(EmptyDict, cfg, 1, NONE, NONE, ctorLlm)
        n == Bump(1, l.res)
        e == get_embeddings(EmptyDict, cfg, n, NONE, ctorEmb)
    IN  IF l.res.status # "ok"
        THEN [llm_cache |-> l.cache, embedding_cache |-> EmptyDict,
              next |-> n, issued |-> {}]
        ELSE [llm_cache |-> l.cache, embedding_cache |-> e.cache,
              next |-> Bump(n, e.res),
              issued |-> Issue("llm", l.res) \cup Issue("embeddings", e.res)]

\* The cache dictionary an operation of the manager works on.
CacheOf(mm, op) == IF op = "get_llm" THEN mm.llm_cache ELSE mm.embedding_cache

KindOf(op) == IF op = "get_llm" THEN "llm" ELSE "embeddings"

GetOps == {"get_llm", "get_embeddings"}

CtorOutcomes == {"ok", "raise"}

\* MetricEvaluator.__init__: no handler yet.
NoHandlers == [llm |-> NoHandle, embeddings |-> NoHandle, serial |-> 0]

\* Arguments callers pass: omitted, catalog names, and names outside the catalog.
ProviderArgs == {NONE, "openai", "anthropic", "cohere"}

LlmArgs == {NONE, "gpt-4", "gpt-3.5-turbo", "claude-3-opus-20240229", "llama-3"}

EmbeddingArgs == {NONE, "text-embedding-ada-002", "text-embedding-3-small", "bert"}

\* The call history kept for the properties: the last call with its arguments
\* and result; `retryOf` is the error of the call before it when that call was
\* the same operation on the same key and failed, and "none" otherwise; `cred`
\* is false when the call returned a handle while no credential was configured
\* for its provider; `cleared` are the keys a clear_cache call removed, and
\* `recreated` says that the call returned a handle for a key that the
\* clear_cache call just before it had removed.
NoCall ==
    [op |-> "none", args |-> <<>>, res |-> Raised("none", NONE, 0), tick |-> 0,
     retryOf |-> "none", cred |-> TRUE, cleared |-> {}, recreated |-> FALSE]

Called(op, args, res) ==
    [op |-> op, args |-> args, res |-> res, tick |-> 1 - lastCall.tick,
     retryOf |-> IF lastCall.op = op /\ lastCall.res.key = res.key
                    /\ lastCall.res.status # "ok"
                 THEN lastCall.res.status ELSE "none",
     cred |-> \/ res.status # "ok"
              \/ op = "get_llm"
                 /\ HasCredential(config, OrDefault(args[1], config.DEFAULT_PROVIDER))
              \/ op = "get_embeddings" /\ config.OPENAI_API_KEY,
     cleared |-> {},
     recreated |-> /\ lastCall.op = "clear_cache" /\ res.status = "ok"
                   /\ [cache |-> KindOf(op), key |-> res.key] \in lastCall.cleared]

----------------------------------------------------------------------------
(* The state after the modules are imported (model_manager = ModelManager()). *)

InitImported ==
    /\ \E ok \in BOOLEAN, ak \in BOOLEAN : config = DefaultConfig(ok, ak)
    /\ \E cl \in CtorOutcomes, ce \in CtorOutcomes :
         LET m == InitModelManager(config, cl, ce)
         IN  /\ model_manager = [llm_cache |-> m.llm_cache,
                                 embedding_cache |-> m.embedding_cache]
             /\ nextHandle = m.next
             /\ issued = m.issued
    /\ lastCall = NoCall
    /\ callers = [c \in 1..NumCallers |-> [pc |-> "idle", res |-> NoCall.res]]
    /\ evaluator = NoHandlers

----------------------------------------------------------------------------
(* Calls of the model resource cache, each run without interruption. *)

GetLlm(provider, model_name, ctor) ==
    LET r == get_llm(model_manager.llm_cache, config, nextHandle,
                     provider, model_name, ctor)
    IN  /\ r.res.attempts > 0 => nextHandle <= MaxHandles
        /\ r.res.attempts = 0 => ctor = "ok"
        /\ model_manager' = [model_manager EXCEPT !.llm_cache = r.cache]
        /\ nextHandle' = Bump(nextHandle, r.res)
        /\ issued' = issued \cup Issue("llm", r.res)
        /\ lastCall' = Called("get_llm", <<provider, model_name>>, r.res)
        /\ UNCHANGED <<config, callers, evaluator, req>>

GetEmbeddings(model_name, ctor) ==
    LET r == get_embeddings(model_manager.embedding_cache, config, nextHandle,
                            model_name, ctor)
    IN  /\ r.res.attempts > 0 => nextHandle <= MaxHandles
        /\ r.res.attempts = 0 => ctor = "ok"
        /\ model_manager' = [model_manager EXCEPT !.embedding_cache = r.cache]
        /\ nextHandle' = Bump(nextHandle, r.res)
        /\ issued' = issued \cup Issue("embeddings", r.res)
        /\ lastCall' = Called("get_embeddings", <<model_name>>, r.res)
        /\ UNCHANGED <<config, callers, evaluator, req>>

\* The keys of both caches.
CachedKeys ==
    {[cache |-> "llm", key |-> k] : k \in DOMAIN model_manager.llm_cache}
        \cup {[cache |-> "embeddings", key |-> k] : k \in DOMAIN model_manager.embedding_cache}

\* Mutant of ClearCache: only the LLM cache is emptied.
ClearCacheLlmOnly ==
    /\ model_manager' = [model_manager EXCEPT !.llm_cache = EmptyDict]
    /\ issued' = {i \in issued : i.cache # "llm"}
    /\ lastCall' = [Called("clear_cache", <<>>, NoCall.res) EXCEPT !.cleared = CachedKeys]
    /\ UNCHANGED <<config, nextHandle, callers, evaluator, req>>

\* ModelManager.clear_cache.
ClearCache ==
    /\ model_manager' = [llm_cache |-> EmptyDict, embedding_cache |-> EmptyDict]
    /\ issued' = {}
    /\ lastCall' = [Called("clear_cache", <<>>, NoCall.res) EXCEPT !.cleared = CachedKeys]
    /\ UNCHANGED <<config, nextHandle, callers, evaluator, req>>

\* The environment sets or unsets a provider's API key.
SetCredential(provider, present) ==
    /\ config' = IF provider = "openai"
                 THEN [config EXCEPT !.OPENAI_API_KEY = present]
                 ELSE [config EXCEPT !.ANTHROPIC_API_KEY = present]
    /\ config' # config
    /\ UNCHANGED <<model_manager, nextHandle, issued, lastCall, callers, evaluator, req>>

NextCache ==
    \/ \E p \in ProviderArgs, m \in LlmArgs, c \in CtorOutcomes : GetLlm(p, m, c)
    \/ \E m \in EmbeddingArgs, c \in CtorOutcomes : GetEmbeddings(m, c)
    \/ ClearCache
    \/ \E p \in {"openai", "anthropic"}, b \in BOOLEAN : SetCredential(p, b)

InitCache == InitImported /\ req = <<>>

SpecCache == InitCache /\ [][NextCache]_vars

----------------------------------------------------------------------------
(* get_llm called by several callers at once, the client constructor being a  *)
(* point where a caller is suspended and another one runs.                  *)

IdleCaller == [pc |-> "idle", res |-> NoCall.res]

\* models.py:29-56: resolve, validate, look the key up, check the credential.
CallBegin(c, provider, model_name) ==
    LET b == GetLlmBegin(model_manager.llm_cache, config, provider, model_name)
    IN  /\ callers[c].pc = "idle"
        /\ callers' = [callers EXCEPT ![c] =
                          [pc |-> IF ~b.done THEN "constructing"
                                  ELSE IF b.res.status = "ok" THEN "returned"
                                  ELSE "raised",
                           res |-> b.res]]
        /\ issued' = IF b.done THEN issued \cup Issue("llm", b.res) ELSE issued
        /\ UNCHANGED <<config, model_manager, nextHandle, lastCall, evaluator, req>>

\* models.py:49-72: the constructor returns or raises; the wrapped client is
\* stored and returned.
CallFinish(c, ctor) ==
    LET r == GetLlmFinish(model_manager.llm_cache, callers[c].res.key,
                          nextHandle, ctor)
    IN  /\ callers[c].pc = "constructing"
        /\ nextHandle <= MaxHandles
        /\ callers' = [callers EXCEPT ![c] =
                          [pc |-> IF r.res.status = "ok" THEN "returned" ELSE "raised",
                           res |-> r.res]]
        /\ model_manager' = [model_manager EXCEPT !.llm_cache = r.cache]
        /\ nextHandle' = Bump(nextHandle, r.res)
        /\ issued' = issued \cup Issue("llm", r.res)
        /\ UNCHANGED <<config, lastCall, evaluator, req>>

\* The caller has its result and may call again.
CallDone(c) ==
    /\ callers[c].pc \in {"returned", "raised"}
    /\ callers' = [callers EXCEPT ![c] = IdleCaller]
    /\ UNCHANGED <<config, model_manager, nextHandle, issued, lastCall, evaluator, req>>

NextSuspend ==
    \/ \E c \in 1..NumCallers, p \in ProviderArgs, m \in LlmArgs : CallBegin(c, p, m)
    \/ \E c \in 1..NumCallers, o \in CtorOutcomes : CallFinish(c, o)
    \/ \E c \in 1..NumCallers : CallDone(c)

SpecSuspend == InitCache /\ [][NextSuspend]_vars

----------------------------------------------------------------------------
(* metrics/__init__.py and the handler groups' metric lists *)

RetrievalSupported == {"context_precision", "context_precision_with_ref", "context_recall"}

GenerationSupported == {"faithfulness", "answer_relevancy", "answer_correctness"}

SimilaritySupported == {"semantic_similarity", "bleu_score", "rouge_score"}

AspectCriticSupported == {"coherence", "conciseness", "harmfulness", "maliciousness"}

\* <Handler>.get_supported_metrics()
get_supported_metrics(group) ==
    CASE group = "retrieval" -> RetrievalSupported
      [] group = "generation" -> GenerationSupported
      [] group = "similarity" -> SimilaritySupported
      [] group = "aspect_critic" -> AspectCriticSupported

Groups == {"retrieval", "generation", "similarity", "aspect_critic"}

\* Mutant of METRIC_REGISTRY: answer_relevancy is registered under the retrieval
\* group, whose handler also holds a ResponseRelevancy metric.
MetricRegistryMisrouted ==
    [context_precision |-> "retrieval",
     context_precision_with_ref |-> "retrieval",
     context_recall |-> "retrieval",
     faithfulness |-> "generation",
     answer_relevancy |-> "retrieval",
     answer_correctness |-> "generation",
     semantic_similarity |-> "similarity",
     bleu_score |-> "similarity",
     rouge_score |-> "similarity",
     coherence |-> "aspect_critic",
     conciseness |-> "aspect_critic",
     harmfulness |-> "aspect_critic",
     maliciousness |-> "aspect_critic"]

\* METRIC_REGISTRY: metric name -> handler class.
METRIC_REGISTRY ==
    [context_precision |-> "retrieval",
     context_precision_with_ref |-> "retrieval",
     context_recall |-> "retrieval",
     faithfulness |-> "generation",
     answer_relevancy |-> "generation",
     answer_correctness |-> "generation",
     semantic_similarity |-> "similarity",
     bleu_score |-> "similarity",
     rouge_score |-> "similarity",
     coherence |-> "aspect_critic",
     conciseness |-> "aspect_critic",
     harmfulness |-> "aspect_critic",
     maliciousness |-> "aspect_critic"]

get_all_supported_metrics == DOMAIN METRIC_REGISTRY

\* <Handler>.get_metric_requirements()
get_metric_requirements ==
    [context_precision |-> {"user_input", "response", "retrieved_contexts"},
     context_precision_with_ref |-> {"user_input", "reference", "retrieved_contexts"},
     context_recall |-> {"user_input", "reference", "retrieved_contexts"},
     faithfulness |-> {"user_input", "response", "retrieved_contexts"},
     answer_relevancy |-> {"user_input", "response"},
     answer_correctness |-> {"user_input", "response", "reference"},
     semantic_similarity |-> {"response", "reference"},
     bleu_score |-> {"response", "reference"},
     rouge_score |-> {"response", "reference"},
     coherence |-> {"user_input", "response"},
     conciseness |-> {"user_input", "response"},
     harmfulness |-> {"user_input", "response"},
     maliciousness |-> {"user_input", "response"}]

----------------------------------------------------------------------------
(* The evaluation record and the scoring capability *)

Fields == {"user_input", "response", "reference", "retrieved_contexts"}

\* A field of the record: not a key of it, a key with a falsy value (empty
\* string, empty list, null), or a key with a non-empty value.
FieldStates == {"absent", "empty", "value"}

\* `f in data`
HasKey(data, f) == data[f] # "absent"

\* bool(d.get(f)) for a dict d given as a function on its keys
Truthy(d, f) == f \in DOMAIN d /\ d[f] = "value"

\* The dict with the keys `fs`, each with the record's value.
Take(data, fs) == [f \in fs |-> data[f]]

\* _prepare_sample returns None
NoSample == [ok |-> FALSE, sample |-> Take([f \in Fields |-> "absent"], {})]

Sample(d) == [ok |-> TRUE, sample |-> d]

\* Values of the result mapping: None, float(score), or the mapping a scoring
\* call returned; `by` names the metric whose scoring call produced the value.
Null == [kind |-> "null", by |-> NONE]

Number(m) == [kind |-> "number", by |-> m]

Mapping(m) == [kind |-> "mapping", by |-> m]

\* What a scoring call (metric.single_turn_ascore) does: returns a number,
\* returns a mapping of sub-scores (similarity metrics only), or raises.
ScoreOutcomes(group) ==
    IF group = "similarity" THEN {"number", "mapping", "raise"}
    ELSE {"number", "raise"}

----------------------------------------------------------------------------
(* The handler groups *)

\* Mutant of HandlerMetrics: SimilarityMetrics registers semantic_similarity
\* whether or not it was given embeddings.
HandlerMetricsAlwaysSemantic(group, handler) ==
    CASE group = "retrieval" -> RetrievalSupported \cup {"response_relevancy"}
      [] group = "generation" -> GenerationSupported
      [] group = "similarity" -> SimilaritySupported
      [] group = "aspect_critic" -> AspectCriticSupported

\* The keys of self.metrics after __init__.
HandlerMetrics(group, handler) ==
    CASE group = "retrieval" -> RetrievalSupported \cup {"response_relevancy"}
      [] group = "generation" -> GenerationSupported
      [] group = "similarity" ->
            {"bleu_score", "rouge_score"} \cup
            (IF handler.embeddings # NoHandle THEN {"semantic_similarity"} ELSE {})
      [] group = "aspect_critic" -> AspectCriticSupported

\* RetrievalMetrics._prepare_sample
RetrievalPrepareSample(data, metric_name) ==
    LET common == {f \in {"user_input", "retrieved_contexts"} : HasKey(data, f)}
        extra == IF metric_name = "context_precision" THEN {"response"}
                 ELSE IF metric_name \in {"context_precision_with_ref", "context_recall"}
                 THEN {"reference"}
                 ELSE {}
        sample_data == Take(data, common \cup extra)
    IN  IF \E f \in extra : ~HasKey(data, f) THEN NoSample
        ELSE IF ~Truthy(sample_data, "user_input")
                \/ ~Truthy(sample_data, "retrieved_contexts")
        THEN NoSample
        ELSE Sample(sample_data)

\* Mutant of GenerationPrepareSample: the per-metric required keys are not checked.
GenerationPrepareSampleNoRequiredCheck(data, metric_name) ==
    LET sample_data == Take(data, {f \in Fields : HasKey(data, f)})
    IN  IF ~Truthy(sample_data, "user_input") \/ ~Truthy(sample_data, "response")
        THEN NoSample
        ELSE Sample(sample_data)

\* Mutant of GenerationPrepareSample: the optional retrieved_contexts is
\* projected only by the first handler instance.
GenerationPrepareSampleByInstance(data, metric_name) ==
    LET common == {f \in {"user_input", "response"} : HasKey(data, f)}
        required == IF metric_name = "faithfulness" THEN {"retrieved_contexts"}
                    ELSE IF metric_name = "answer_correctness" THEN {"reference"}
                    ELSE {}
        optional == IF metric_name \in {"answer_relevancy", "answer_correctness"}
                       /\ evaluator.serial <= 1
                    THEN {f \in {"retrieved_contexts"} : HasKey(data, f)}
                    ELSE {}
        sample_data == Take(data, common \cup required \cup optional)
    IN  IF \E f \in required : ~HasKey(data, f) THEN NoSample
        ELSE IF ~Truthy(sample_data, "user_input") \/ ~Truthy(sample_data, "response")
        THEN NoSample
        ELSE Sample(sample_data)

\* GenerationMetrics._prepare_sample
GenerationPrepareSample(data, metric_name) ==
    LET common == {f \in {"user_input", "response"} : HasKey(data, f)}
        required == IF metric_name = "faithfulness" THEN {"retrieved_contexts"}
                    ELSE IF metric_name = "answer_correctness" THEN {"reference"}
                    ELSE {}
        optional == IF metric_name \in {"answer_relevancy", "answer_correctness"}
                    THEN {f \in {"retrieved_contexts"} : HasKey(data, f)}
                    ELSE {}
        sample_data == Take(data, common \cup required \cup optional)
    IN  IF \E f \in required : ~HasKey(data, f) THEN NoSample
        ELSE IF ~Truthy(sample_data, "user_input") \/ ~Truthy(sample_data, "response")
        THEN NoSample
        ELSE Sample(sample_data)

\* Mutant of SimilarityPrepareSample: the sample is a copy of the whole record.
SimilarityPrepareSampleWholeRecord(data, metric_name) ==
    IF ~HasKey(data, "response") \/ ~HasKey(data, "reference") THEN NoSample
    ELSE Sample(Take(data, {f \in Fields : HasKey(data, f)}))

\* SimilarityMetrics._prepare_sample
SimilarityPrepareSample(data, metric_name) ==
    IF ~HasKey(data, "response") \/ ~HasKey(data, "reference") THEN NoSample
    ELSE Sample(Take(data, {"response", "reference"}
                            \cup {f \in {"user_input"} : HasKey(data, f)}))

\* AspectCriticMetrics._prepare_sample
AspectCriticPrepareSample(data, metric_name) ==
    IF ~HasKey(data, "user_input") \/ ~HasKey(data, "response") THEN NoSample
    ELSE Sample(Take(data, {"user_input", "response"}))

\* The fields _prepare_sample copies for a metric when the record has them
\* without requiring them: retrieved_contexts for answer_relevancy and
\* answer_correctness, user_input for the similarity metrics.
OptionalFields(metric_name) ==
    IF metric_name \in {"answer_relevancy", "answer_correctness"}
    THEN {"retrieved_contexts"}
    ELSE IF metric_name \in SimilaritySupported THEN {"user_input"}
    ELSE {}

PrepareSample(group, data, metric_name) ==
    CASE group = "retrieval" -> RetrievalPrepareSample(data, metric_name)
      [] group = "generation" -> GenerationPrepareSample(data, metric_name)
      [] group = "similarity" -> SimilarityPrepareSample(data, metric_name)
      [] group = "aspect_critic" -> AspectCriticPrepareSample(data, metric_name)

\* What calculate stores for a scoring call that returned: float(score), except
\* that SimilarityMetrics keeps a dict; float() of a dict raises inside the try.
StoreScore(group, metric_name, outcome) ==
    IF outcome = "number" THEN Number(metric_name)
    ELSE IF outcome = "mapping" /\ group = "similarity" THEN Mapping(metric_name)
    ELSE Null

\* A calculate coroutine: the names it was given, the index of the name the
\* loop is at, its local results dict, and whether it has not run yet ("ready"),
\* is suspended in a scoring call ("awaiting") or has returned ("done").
NewTask(names) ==
    [names |-> names, idx |-> 1, results |-> EmptyDict, st |-> "ready"]

\* The loop of calculate from the current name up to the next scoring call or
\* the end of the list.
RECURSIVE RunLoop(_, _, _, _)
RunLoop(group, handler, data, t) ==
    IF t.idx > Len(t.names) THEN [t EXCEPT !.st = "done"]
    ELSE LET m == t.names[t.idx]
         IN  IF m \notin HandlerMetrics(group, handler)
             THEN RunLoop(group, handler, data,
                     [t EXCEPT !.idx = @ + 1,
                               !.results =
                                  IF group = "similarity" /\ m = "semantic_similarity"
                                     /\ handler.embeddings = NoHandle
                                  THEN DictSet(@, m, Null) ELSE @])
             ELSE IF ~PrepareSample(group, data, m).ok
             THEN RunLoop(group, handler, data,
                     [t EXCEPT !.idx = @ + 1, !.results = DictSet(@, m, Null)])
             ELSE [t EXCEPT !.st = "awaiting"]

\* Mutant of AfterScore: a scoring call that raised leaves no entry (the except
\* clause only logs).
AfterScoreNoEntryOnRaise(group, handler, data, t, outcome) ==
    RunLoop(group, handler, data,
        [t EXCEPT !.idx = @ + 1,
                  !.results = IF outcome = "raise" THEN @
                              ELSE DictSet(@, t.names[t.idx],
                                           StoreScore(group, t.names[t.idx], outcome))])

\* The scoring call the task is suspended in returns or raises.
AfterScore(group, handler, data, t, outcome) ==
    RunLoop(group, handler, data,
        [t EXCEPT !.idx = @ + 1,
                  !.results = DictSet(@, t.names[t.idx],
                                      StoreScore(group, t.names[t.idx], outcome))])

----------------------------------------------------------------------------
(* app.py: MetricEvaluator and the /evaluate endpoint *)

Range(f) == {f[x] : x \in DOMAIN f}

\* The groups MetricEvaluator.evaluate partitions into and launches, in order.
EvaluatorGroups == <<"retrieval", "generation", "similarity">>

\* [m for m in metrics if m in <Handler>.get_supported_metrics()]
Partition(metrics, group) ==
    SelectSeq(metrics, LAMBDA m : m \in get_supported_metrics(group))

\* The coroutines MetricEvaluator.evaluate appends to `tasks`: one per group
\* with a non-empty partition and a handler.
LaunchTasks(handlers, metrics) ==
    [g \in {x \in Range(EvaluatorGroups) :
                Partition(metrics, x) # <<>> /\ handlers.serial # 0} |->
        NewTask(Partition(metrics, g))]

\* a.update(b)
DictUpdate(a, b) ==
    [k \in DOMAIN a \cup DOMAIN b |-> IF k \in DOMAIN b THEN b[k] ELSE a[k]]

\* for result_dict in metric_results: results.update(result_dict)
RECURSIVE MergeResults(_, _)
MergeResults(tasks, i) ==
    IF i = 0 THEN EmptyDict
    ELSE IF EvaluatorGroups[i] \in DOMAIN tasks
    THEN DictUpdate(MergeResults(tasks, i - 1), tasks[EvaluatorGroups[i]].results)
    ELSE MergeResults(tasks, i - 1)

NoResponse ==
    [status |-> "none", metrics |-> EmptyDict, metrics_calculated |-> 0,
     metrics_skipped |-> {}, errors |-> <<>>]

\* except Exception: raise HTTPException(status_code=500)
Http500 == [NoResponse EXCEPT !.status = "http500"]

\* Lines 196-219: the metadata and the response.  EvaluationResponse declares
\* metrics: Dict[str, Optional[float]], so a mapping among the values fails its
\* validation, inside the try.
BuildResponse(results, errors) ==
    IF \E k \in DOMAIN results : results[k].kind = "mapping" THEN Http500
    ELSE [status |-> "success", metrics |-> results,
          metrics_calculated |-> Cardinality({k \in DOMAIN results : results[k] # Null}),
          metrics_skipped |-> {k \in DOMAIN results : results[k] = Null},
          errors |-> errors]

\* Lines 186-191.
InvalidMetrics(metrics) ==
    SelectSeq(metrics, LAMBDA m : m \notin get_all_supported_metrics)

ValidMetrics(metrics) ==
    SelectSeq(metrics, LAMBDA m : m \in get_all_supported_metrics)

\* Mutant of UnsupportedError: unsupported names are dropped without a word.
UnsupportedErrorSilent(metrics) == <<>>

UnsupportedError(metrics) ==
    IF InvalidMetrics(metrics) # <<>>
    THEN <<[kind |-> "unsupported", metrics |-> InvalidMetrics(metrics)]>>
    ELSE <<>>

\* An evaluation call: its inputs, the handler objects its coroutines are bound
\* to, the coroutines, and the history the properties read: scoring calls
\* started per metric name, the names whose scoring call raised or returned,
\* what the last scoring call of a name returned and the sample it was given,
\* the groups a scoring call of which ended while another group's was pending.
NewReq ==
    [pc |-> "new", kind |-> "none", data |-> [f \in Fields |-> "absent"],
     metrics |-> <<>>, handler |-> NoHandlers, tasks |-> EmptyDict,
     calls |-> EmptyDict, raised |-> {}, scored |-> {}, returned |-> EmptyDict,
     samples |-> EmptyDict, usedBy |-> {}, overlapped |-> {},
     eval_config |-> [provider |-> NONE, evaluator_llm |-> NONE, embeddings |-> NONE],
     response |-> NoResponse]

CountCall(calls, t) ==
    IF t.st = "awaiting"
    THEN DictSet(calls, t.names[t.idx],
                 IF t.names[t.idx] \in DOMAIN calls THEN calls[t.names[t.idx]] + 1 ELSE 1)
    ELSE calls

\* SingleTurnSample(**sample_data): the sample the scoring call the task is
\* suspended in was given, kept per metric name.
RecordSample(samples, group, data, t) ==
    IF t.st = "awaiting"
    THEN DictSet(samples, t.names[t.idx], PrepareSample(group, data, t.names[t.idx]).sample)
    ELSE samples

\* evaluate_metrics from its first line to the first suspension (the await of
\* asyncio.gather), or to its end when it does not suspend.
StartEvaluate(r, data, metrics, eval_config, ctorLlm, ctorEmb) ==
    LET l == get_llm(model_manager.llm_cache, config, nextHandle,
                     eval_config.provider, eval_config.evaluator_llm, ctorLlm)
        n == Bump(nextHandle, l.res)
        e == get_embeddings(model_manager.embedding_cache, config, n,
                            eval_config.embeddings, ctorEmb)
        aborted == l.res.status # "ok"
                   \/ (OrDefault(eval_config.embeddings, NONE) # NONE
                       /\ e.res.status # "ok")
        handlers == [llm |-> l.res.handle, embeddings |-> e.res.handle,
                     serial |-> evaluator.serial + 1]
        tasks == LaunchTasks(handlers, ValidMetrics(metrics))
    IN  /\ req[r].pc = "new"
        /\ l.res.attempts = 0 => ctorLlm = "ok"
        /\ (l.res.status # "ok" \/ e.res.attempts = 0) => ctorEmb = "ok"
        /\ model_manager' =
              [llm_cache |-> l.cache,
               embedding_cache |-> IF l.res.status = "ok" THEN e.cache
                                   ELSE model_manager.embedding_cache]
        /\ nextHandle' = IF l.res.status = "ok" THEN Bump(n, e.res) ELSE n
        /\ issued' = issued \cup Issue("llm", l.res)
                       \cup (IF l.res.status = "ok" THEN Issue("embeddings", e.res) ELSE {})
        /\ lastCall' = IF l.res.status = "ok"
                       THEN Called("get_embeddings", <<eval_config.embeddings>>, e.res)
                       ELSE Called("get_llm", <<eval_config.provider,
                                                eval_config.evaluator_llm>>, l.res)
        /\ evaluator' = IF aborted THEN evaluator ELSE handlers
        /\ req' = [req EXCEPT ![r] =
              [NewReq EXCEPT
                 !.kind = "endpoint", !.data = data, !.metrics = metrics,
                 !.eval_config = eval_config,
                 !.handler = IF aborted THEN NoHandlers ELSE handlers,
                 !.tasks = IF aborted THEN EmptyDict ELSE tasks,
                 !.pc = IF aborted \/ DOMAIN tasks = {} THEN "responded"
                        ELSE "gathering",
                 !.response = IF aborted THEN Http500
                              ELSE IF DOMAIN tasks = {}
                              THEN BuildResponse(EmptyDict, UnsupportedError(metrics))
                              ELSE NoResponse]]
        /\ UNCHANGED <<config, callers>>

\* The embeddings argument of a handler built from the cache: a cached handle,
\* or None when there is none.
CachedEmbeddings ==
    IF DOMAIN model_manager.embedding_cache = {} THEN {NoHandle}
    ELSE Range(model_manager.embedding_cache)

\* A handler group used on its own: <Handler>(llm, embeddings) built from cached
\* handles, and its calculate(data, metric_names) called.
DirectCalculate(r, group, data, metric_names, llm, embeddings) ==
    /\ req[r].pc = "new"
    /\ llm \in Range(model_manager.llm_cache)
    /\ embeddings \in CachedEmbeddings
    /\ req' = [req EXCEPT ![r] =
          [NewReq EXCEPT
             !.kind = "direct", !.data = data, !.metrics = metric_names,
             !.handler = [llm |-> llm, embeddings |-> embeddings, serial |-> 0],
             !.tasks = DictSet(EmptyDict, group, NewTask(metric_names)),
             !.pc = "calculating"]]
    /\ UNCHANGED <<config, model_manager, nextHandle, issued, lastCall, callers,
                   evaluator>>

\* Mutant of TaskHandler: the coroutine looks the handler up in the evaluator
\* each time it runs.
TaskHandlerOfEvaluator(r) == IF req[r].kind = "endpoint" THEN evaluator ELSE req[r].handler

\* The handler object a calculate coroutine of the call is bound to: the one
\* self.<group>_handler referred to when the coroutine was created.
TaskHandler(r) == req[r].handler

\* The handlers whose scoring calls the call has awaited.
RecordHandler(usedBy, handler, t) ==
    IF t.st = "awaiting" THEN usedBy \cup {handler} ELSE usedBy

\* Mutant of Runnable: the calculate calls are awaited one after the other, in
\* the order of the task list.
RunnableInOrder(r, g) ==
    /\ req[r].tasks[g].st = "ready"
    /\ \A i \in 1..Len(EvaluatorGroups) :
          (EvaluatorGroups[i] \in DOMAIN req[r].tasks
           /\ \E j \in (i + 1)..Len(EvaluatorGroups) : EvaluatorGroups[j] = g)
             => req[r].tasks[EvaluatorGroups[i]].st = "done"

\* asyncio.gather schedules every coroutine it is given: each one that has not
\* run yet may be run by the loop, whatever the others are suspended in.
Runnable(r, g) == req[r].tasks[g].st = "ready"

\* The groups of the call other than g whose scoring call is pending.
PendingBeside(r, g) ==
    {x \in DOMAIN req[r].tasks \ {g} : req[r].tasks[x].st = "awaiting"}

\* The event loop runs a coroutine for the first time.
TaskRun(r, g) ==
    /\ req[r].pc \in {"gathering", "calculating"}
    /\ g \in DOMAIN req[r].tasks
    /\ Runnable(r, g)
    /\ LET t == RunLoop(g, TaskHandler(r), req[r].data, req[r].tasks[g])
       IN  req' = [req EXCEPT ![r].tasks[g] = t,
                              ![r].usedBy = RecordHandler(@, TaskHandler(r), t),
                              ![r].calls = CountCall(@, t),
                              ![r].samples = RecordSample(@, g, req[r].data, t)]
    /\ UNCHANGED <<config, model_manager, nextHandle, issued, lastCall, callers,
                   evaluator>>

\* A scoring call ends and its coroutine runs on.
ScoreReturn(r, g, outcome) ==
    /\ req[r].pc \in {"gathering", "calculating"}
    /\ g \in DOMAIN req[r].tasks
    /\ req[r].tasks[g].st = "awaiting"
    /\ LET old == req[r].tasks[g]
           t == AfterScore(g, TaskHandler(r), req[r].data, old, outcome)
       IN  req' = [req EXCEPT ![r].tasks[g] = t,
                              ![r].usedBy = RecordHandler(@, TaskHandler(r), t),
                              ![r].calls = CountCall(@, t),
                              ![r].samples = RecordSample(@, g, req[r].data, t),
                              ![r].overlapped = IF PendingBeside(r, g) # {}
                                                THEN @ \cup {g} ELSE @,
                              ![r].raised = IF outcome = "raise"
                                            THEN @ \cup {old.names[old.idx]} ELSE @,
                              ![r].scored = IF outcome # "raise"
                                            THEN @ \cup {old.names[old.idx]} ELSE @,
                              ![r].returned = IF outcome # "raise"
                                              THEN DictSet(@, old.names[old.idx], outcome)
                                              ELSE @]
    /\ UNCHANGED <<config, model_manager, nextHandle, issued, lastCall, callers,
                   evaluator>>

\* Mutant of AllDone: gather is awaited with a timeout and returns once one of
\* the coroutines has.
AnyDone(tasks) == \E g \in DOMAIN tasks : tasks[g].st = "done"

AllDone(tasks) == \A g \in DOMAIN tasks : tasks[g].st = "done"

\* asyncio.gather returns: the results are merged and the response is built.
Respond(r) ==
    /\ req[r].pc = "gathering"
    /\ AllDone(req[r].tasks)
    /\ req' = [req EXCEPT
          ![r].pc = "responded",
          ![r].response = BuildResponse(MergeResults(req[r].tasks, Len(EvaluatorGroups)),
                                        UnsupportedError(req[r].metrics))]
    /\ UNCHANGED <<config, model_manager, nextHandle, issued, lastCall, callers,
                   evaluator>>

\* A call that ended with CancelledError: no EvaluationResponse, no HTTP error
\* built by the handler.
Cancelled == [NoResponse EXCEPT !.status = "cancelled"]

\* The coroutines that had not returned are cancelled where they stand; their
\* local results dicts are dropped with them.
CancelTasks(tasks) ==
    [g \in DOMAIN tasks |->
        IF tasks[g].st = "done" THEN tasks[g] ELSE [tasks[g] EXCEPT !.st = "cancelled"]]

\* Mutant of BuildCancelled: what the groups that had returned produced is
\* handed to the caller.
BuildCancelledPartial(tasks) ==
    BuildResponse(MergeResults([g \in {x \in DOMAIN tasks : tasks[x].st = "done"} |->
                                   tasks[g]], Len(EvaluatorGroups)), <<>>)

\* What the caller gets when gather raises CancelledError: lines 102-105 and
\* 196-219 are not run, and neither except clause is entered.
BuildCancelled(tasks) == Cancelled

\* The request is cancelled while asyncio.gather is awaited: CancelledError is
\* raised at the suspension point of each unfinished coroutine, passes the
\* `except Exception` of calculate, of evaluate and of evaluate_metrics.
GatherCancelled(r) ==
    /\ req[r].pc = "gathering"
    /\ ~AllDone(req[r].tasks)
    /\ req' = [req EXCEPT
          ![r].pc = "cancelled",
          ![r].tasks = CancelTasks(@),
          ![r].response = BuildCancelled(req[r].tasks)]
    /\ UNCHANGED <<config, model_manager, nextHandle, issued, lastCall, callers,
                   evaluator>>

\* A directly called calculate returns its results dict.
DirectReturn(r) ==
    /\ req[r].pc = "calculating"
    /\ AllDone(req[r].tasks)
    /\ req' = [req EXCEPT
          ![r].pc = "responded",
          ![r].response =
             [NoResponse EXCEPT
                !.status = "returned",
                !.metrics = LET g == CHOOSE x \in DOMAIN req[r].tasks : TRUE
                            IN  req[r].tasks[g].results]]
    /\ UNCHANGED <<config, model_manager, nextHandle, issued, lastCall, callers,
                   evaluator>>

----------------------------------------------------------------------------
(* Inputs *)

\* Metric names requested in one call.
MaxMetrics == 2

\* Fields of a record that are absent or empty.
MaxDefects == 1

\* Names requests are made of: members of the four groups and a name that is
\* in no registry.
RequestNames ==
    {"context_precision", "context_recall", "faithfulness", "answer_relevancy",
     "answer_correctness", "semantic_similarity", "rouge_score", "coherence",
     "bogus_metric"}

MetricLists == UNION {[1..n -> RequestNames] : n \in 0..MaxMetrics}

Records ==
    {d \in [Fields -> FieldStates] :
        Cardinality({f \in Fields : d[f] # "value"}) <= MaxDefects}

\* evaluation_config of a request: omitted, an Anthropic model, and an embedding
\* model outside the catalog.
EvalConfigs ==
    {[provider |-> NONE, evaluator_llm |-> NONE, embeddings |-> NONE],
     [provider |-> "anthropic", evaluator_llm |-> "claude-3-opus-20240229",
      embeddings |-> NONE],
     [provider |-> NONE, evaluator_llm |-> NONE, embeddings |-> "bert"]}

\* The service after an import in which the default clients, where a key is
\* configured for them, were constructed: an Anthropic key is configured, an
\* OpenAI key may be.  One evaluation call is made.
Init ==
    /\ \E ok \in BOOLEAN : config = DefaultConfig(ok, TRUE)
    /\ LET m == InitModelManager(config, "ok", "ok")
       IN  /\ model_manager = [llm_cache |-> m.llm_cache,
                               embedding_cache |-> m.embedding_cache]
           /\ nextHandle = m.next
           /\ issued = m.issued
    /\ lastCall = NoCall
    /\ callers = [c \in 1..NumCallers |-> IdleCaller]
    /\ evaluator = NoHandlers
    /\ req = <<NewReq>>

\* A call that has not started yet.
IsNew(r) == req[r].pc = "new"

Next ==
    \/ \E r \in DOMAIN req : IsNew(r) /\
          \E d \in Records, ms \in MetricLists, c \in EvalConfigs,
             cl \in CtorOutcomes, ce \in CtorOutcomes :
               StartEvaluate(r, d, ms, c, cl, ce)
    \/ \E r \in DOMAIN req : IsNew(r) /\
          \E g \in Groups, l \in Range(model_manager.llm_cache),
             e \in CachedEmbeddings,
             d \in Records, ms \in MetricLists :
               DirectCalculate(r, g, d, ms, l, e)
    \/ \E r \in DOMAIN req, g \in Groups : TaskRun(r, g)
    \/ \E r \in DOMAIN req, g \in Groups : \E o \in ScoreOutcomes(g) : ScoreReturn(r, g, o)
    \/ \E r \in DOMAIN req : Respond(r)
    \/ \E r \in DOMAIN req : DirectReturn(r)
    \/ \E r \in DOMAIN req : GatherCancelled(r)

Spec == Init /\ [][Next]_vars

----------------------------------------------------------------------------
(* Properties of the model resource cache *)

\* Handles returned for one key of one cache since the last clear.
IssuedFor(kind, key) == {i.handle : i \in {j \in issued : j.cache = kind /\ j.key = key}}

\* A step that is a get_llm or get_embeddings call.
IsGetCall == lastCall'.tick # lastCall.tick /\ lastCall'.op \in GetOps

CacheIdentityInv ==
    /\ \A i \in issued : Cardinality(IssuedFor(i.cache, i.key)) = 1
    /\ \A k \in DOMAIN model_manager.llm_cache :
          IssuedFor("llm", k) \subseteq {model_manager.llm_cache[k]}
    /\ \A k \in DOMAIN model_manager.embedding_cache :
          IssuedFor("embeddings", k) \subseteq {model_manager.embedding_cache[k]}

CacheIdentityStep ==
    IsGetCall =>
        /\ \A op \in GetOps : \A k \in DOMAIN CacheOf(model_manager, op) :
              /\ k \in DOMAIN CacheOf(model_manager', op)
              /\ CacheOf(model_manager', op)[k] = CacheOf(model_manager, op)[k]
        /\ lastCall'.res.status = "ok" =>
              /\ lastCall'.res.key \in DOMAIN CacheOf(model_manager', lastCall'.op)
              /\ CacheOf(model_manager', lastCall'.op)[lastCall'.res.key]
                    = lastCall'.res.handle
              /\ lastCall'.res.constructed
                    <=> lastCall'.res.key \notin DOMAIN CacheOf(model_manager, lastCall'.op)

\* C8: with no clear in between, all successful get_llm / get_embeddings calls
\* that resolve to the same key return the same handle; a cached entry is never
\* replaced or constructed again, and a call constructs only on a miss.
C8_CacheIdentity == []CacheIdentityInv /\ [][CacheIdentityStep]_vars

\* C8 witness: a get_llm call answered from the cache with the handle an
\* earlier call for the same key had constructed.
C8_Witness ==
    /\ lastCall.op = "get_llm" /\ lastCall.res.status = "ok"
    /\ ~lastCall.res.constructed
    /\ lastCall.res.key = "anthropic_claude-3-opus-20240229"

\* C9: however get_llm calls interleave at the client constructor, no two
\* handles are ever handed out for one key.
C9_OneHandlePerKey ==
    \A i \in issued : \A j \in issued :
        (i.cache = j.cache /\ i.key = j.key) => i.handle = j.handle

FailedGetStep ==
    (IsGetCall /\ lastCall'.res.status # "ok") =>
        /\ model_manager' = model_manager
        /\ issued' = issued
        /\ lastCall'.res.handle = NoHandle
        /\ lastCall'.res.attempts <= 1

RetryAfterFailureInv ==
    (lastCall.op \in GetOps /\ lastCall.retryOf # "none") =>
        /\ lastCall.res.status = "ok" =>
              /\ lastCall.res.constructed
              /\ CacheOf(model_manager, lastCall.op)[lastCall.res.key]
                    = lastCall.res.handle
        /\ lastCall.res.status # "ok" =>
              lastCall.res.key \notin DOMAIN CacheOf(model_manager, lastCall.op)

NoStaleCredentialFailure ==
    (IsGetCall /\ lastCall'.res.status = "MissingCredential") =>
        IF lastCall'.op = "get_llm"
        THEN ~HasCredential(config,
                 OrDefault(lastCall'.args[1], config.DEFAULT_PROVIDER))
        ELSE ~config.OPENAI_API_KEY

\* C10: a failed get_llm / get_embeddings call returns no handle, invokes the
\* client constructor at most once and leaves both caches as they were; nothing
\* is remembered of the failure, so the next call for the key fails only for a
\* cause that still holds, and when it succeeds it constructs and caches.
C10_FailureNotCached ==
    [][FailedGetStep /\ NoStaleCredentialFailure]_vars /\ []RetryAfterFailureInv

\* C10 witness: get_llm failed for a missing credential, the credential was
\* configured, and the next get_llm for the same key constructed a handle.
C10_Witness ==
    /\ lastCall.op = "get_llm" /\ lastCall.retryOf = "MissingCredential"
    /\ lastCall.res.status = "ok" /\ lastCall.res.constructed

----------------------------------------------------------------------------
(* Properties of the handler groups and the orchestrator *)

Requested(r) == Range(req[r].metrics)

\* Scoring calls started for a metric name in a call.
Calls(r, m) == IF m \in DOMAIN req[r].calls THEN req[r].calls[m] ELSE 0

\* The endpoint returned a response with status "success".
Succeeded(r) ==
    /\ req[r].kind = "endpoint" /\ req[r].pc = "responded"
    /\ req[r].response.status = "success"

\* The endpoint got its model handles and went on to the metrics.
Admitted(r) == req[r].kind = "endpoint" /\ req[r].handler # NoHandlers

MissingRequired(r, m) ==
    \E f \in get_metric_requirements[m] : req[r].data[f] = "absent"

\* Config.METRIC_REQUIREMENTS: the metrics that need an embeddings handle.
NeedsEmbeddings == {"answer_relevancy", "semantic_similarity"}

UnsupportedNamesReported(r) ==
    UNION {Range(req[r].response.errors[i].metrics) :
             i \in {j \in DOMAIN req[r].response.errors :
                       req[r].response.errors[j].kind = "unsupported"}}

\* C1: in a returned outcome every requested registry metric was routed to its
\* group and has exactly one entry in the scores, null exactly when it is
\* listed as skipped.
C1_RegistryMetricHasEntry ==
    \A r \in DOMAIN req : Succeeded(r) =>
        \A m \in Requested(r) \cap get_all_supported_metrics :
            /\ METRIC_REGISTRY[m] \in DOMAIN req[r].tasks
            /\ m \in DOMAIN req[r].response.metrics
            /\ (m \in req[r].response.metrics_skipped
                  <=> req[r].response.metrics[m] = Null)

\* C2: when every scoring call of a metric X raised, the outcome still has an
\* entry for every requested registry metric, X's entry is null, and every
\* metric Y whose scoring calls returned has the value of its own call.
C2_FailureIsolated ==
    \A r \in DOMAIN req : Succeeded(r) =>
        \A x \in req[r].raised \ req[r].scored :
            /\ \A m \in Requested(r) \cap get_all_supported_metrics :
                  m \in DOMAIN req[r].response.metrics
            /\ req[r].response.metrics[x] = Null
            /\ \A y \in req[r].scored \ req[r].raised :
                  req[r].response.metrics[y] = Number(y)

\* Failure isolation among the names of the groups the evaluator launched.
FailureIsolatedAmongLaunched ==
    \A r \in DOMAIN req : Succeeded(r) =>
        \A x \in req[r].raised \ req[r].scored :
            /\ \A g \in DOMAIN req[r].tasks : \A m \in Range(req[r].tasks[g].names) :
                  m \in DOMAIN req[r].response.metrics
            /\ req[r].response.metrics[x] = Null
            /\ \A y \in req[r].scored \ req[r].raised :
                  req[r].response.metrics[y] = Number(y)

\* C3: a metric of a handler group with a required field absent from the
\* record gets null from the group's calculate and no scoring call is started
\* for it; the loop goes on, so that every name of the group has its entry when
\* calculate returns, and the endpoint passes the null on.
C3_MissingFieldSkipped ==
    \A r \in DOMAIN req :
        /\ \A m \in Requested(r) \cap get_all_supported_metrics :
              MissingRequired(r, m) => Calls(r, m) = 0
        /\ \A g \in DOMAIN req[r].tasks :
              LET t == req[r].tasks[g]
                  own == {i \in DOMAIN t.names : t.names[i] \in get_supported_metrics(g)}
              IN  /\ \A i \in own :
                        MissingRequired(r, t.names[i]) =>
                          /\ ~(t.st = "awaiting" /\ t.idx = i)
                          /\ (i < t.idx \/ t.st = "done") =>
                                /\ t.names[i] \in DOMAIN t.results
                                /\ t.results[t.names[i]] = Null
                          /\ req[r].pc = "responded" /\ req[r].response.status # "http500" =>
                                /\ t.names[i] \in DOMAIN req[r].response.metrics
                                /\ req[r].response.metrics[t.names[i]] = Null
                  /\ t.st = "done" => \A i \in own : t.names[i] \in DOMAIN t.results

\* C3 witness: answer_correctness, whose reference is absent, is null with no
\* scoring call while faithfulness of the same request was scored.
C3_WitnessEndpoint ==
    \E r \in DOMAIN req :
        /\ Succeeded(r)
        /\ req[r].data["reference"] = "absent"
        /\ {"answer_correctness", "faithfulness"} \subseteq DOMAIN req[r].response.metrics
        /\ req[r].response.metrics["answer_correctness"] = Null
        /\ Calls(r, "answer_correctness") = 0
        /\ req[r].response.metrics["faithfulness"] = Number("faithfulness")

\* The same case in the aspect-critique group: its calculate, given a record
\* without response, returned null for coherence.
AspectGroupSkipped ==
    \E r \in DOMAIN req :
        /\ req[r].kind = "direct" /\ req[r].pc = "responded"
        /\ "aspect_critic" \in DOMAIN req[r].tasks
        /\ req[r].data["response"] = "absent"
        /\ "coherence" \in DOMAIN req[r].response.metrics
        /\ req[r].response.metrics["coherence"] = Null
        /\ Calls(r, "coherence") = 0

\* C4: every requested registry metric whose required fields are all keys of
\* the record and whose embeddings handle, if it needs one, is there gets
\* exactly one scoring call.
C4_ExactlyOneScoringCall ==
    \A r \in DOMAIN req : Succeeded(r) =>
        \A m \in Requested(r) \cap get_all_supported_metrics :
            (/\ ~MissingRequired(r, m)
             /\ m \in NeedsEmbeddings => req[r].handler.embeddings # NoHandle)
            => Calls(r, m) = 1

\* A name outside the registry has no entry, is not listed as skipped, is handed
\* to no handler group and has no scoring call.
UnknownLeftOut(r, m) ==
    /\ Calls(r, m) = 0
    /\ \A g \in DOMAIN req[r].tasks :
          m \notin Range(req[r].tasks[g].names) \cup DOMAIN req[r].tasks[g].results
    /\ m \notin DOMAIN req[r].response.metrics
    /\ m \notin req[r].response.metrics_skipped

\* The names the evaluator hands to group g are the requested names of that
\* group, in the order requested, whatever else was requested.
RoutedAsIfAlone(r) ==
    \A i \in DOMAIN EvaluatorGroups :
        LET g == EvaluatorGroups[i]
            mine == SelectSeq(req[r].metrics, LAMBDA m : m \in get_supported_metrics(g))
        IN  IF mine = <<>> THEN g \notin DOMAIN req[r].tasks
            ELSE g \in DOMAIN req[r].tasks /\ req[r].tasks[g].names = mine

\* What evaluate_metrics does with the names outside the registry: each is
\* reported as unsupported and left out of everything else, and the other names
\* are handed to the launched groups as if it had not been requested and have
\* their entries in the outcome.
UnknownNamesHandled ==
    \A r \in DOMAIN req : Admitted(r) =>
        /\ \A m \in Requested(r) \ get_all_supported_metrics :
              /\ UnknownLeftOut(r, m)
              /\ Succeeded(r) => m \in UnsupportedNamesReported(r)
        /\ RoutedAsIfAlone(r)
        /\ Succeeded(r) =>
              \A g \in DOMAIN req[r].tasks :
                  Range(req[r].tasks[g].names) \subseteq DOMAIN req[r].response.metrics

\* C5: a requested name that is not in the registry is reported as unsupported
\* in errors, has no entry and is not skipped, reaches no handler group and no
\* scoring call; the registry names of the same request are still evaluated:
\* each is handed to its group and has its entry in the outcome.
C5_UnknownReportedOthersEvaluated ==
    \A r \in DOMAIN req :
        (Succeeded(r) /\ Requested(r) \ get_all_supported_metrics # {}) =>
            /\ \A m \in Requested(r) \ get_all_supported_metrics :
                  UnknownLeftOut(r, m) /\ m \in UnsupportedNamesReported(r)
            /\ \A m \in Requested(r) \cap get_all_supported_metrics :
                  /\ METRIC_REGISTRY[m] \in DOMAIN req[r].tasks
                  /\ m \in Range(req[r].tasks[METRIC_REGISTRY[m]].names)
                  /\ m \in DOMAIN req[r].response.metrics

\* C6 as stated: an unknown name has a null score and is listed as skipped.
C6_UnknownIsNullAndSkipped ==
    \A r \in DOMAIN req : Succeeded(r) =>
        \A m \in Requested(r) \ get_all_supported_metrics :
            /\ m \in DOMAIN req[r].response.metrics
            /\ req[r].response.metrics[m] = Null
            /\ m \in req[r].response.metrics_skipped

\* The request ends in a 500 only when a model handle could not be had or a
\* scoring call returned a mapping.
AbortCause(r) ==
    \/ req[r].handler = NoHandlers
    \/ \E g \in DOMAIN req[r].tasks : \E k \in DOMAIN req[r].tasks[g].results :
          req[r].tasks[g].results[k].kind = "mapping"

\* C6, amended: an unknown name is reported in errors as unsupported, has no
\* score entry and is not in the skipped list; it does not abort the batch.
C6_UnknownReportedNotSkipped ==
    \A r \in DOMAIN req :
        (req[r].kind = "endpoint" /\ req[r].pc = "responded"
         /\ Requested(r) \ get_all_supported_metrics # {}) =>
            /\ req[r].response.status = "http500" => AbortCause(r)
            /\ req[r].response.status = "success" =>
                  \A m \in Requested(r) \ get_all_supported_metrics :
                      /\ m \in UnsupportedNamesReported(r)
                      /\ m \notin DOMAIN req[r].response.metrics
                      /\ m \notin req[r].response.metrics_skipped

\* C6 witness: an outcome for bogus_metric alone.
C6_Witness ==
    \E r \in DOMAIN req :
        /\ Succeeded(r)
        /\ req[r].metrics = <<"bogus_metric">>
        /\ req[r].response.metrics = EmptyDict
        /\ req[r].response.metrics_skipped = {}
        /\ UnsupportedNamesReported(r) = {"bogus_metric"}

\* C7: a metric whose scoring call raised has a null score and an entry in
\* errors that names it.
C7_ComputationErrorReported ==
    \A r \in DOMAIN req : Succeeded(r) =>
        \A x \in req[r].raised \ req[r].scored :
            /\ req[r].response.metrics[x] = Null
            /\ \E i \in DOMAIN req[r].response.errors :
                  /\ req[r].response.errors[i].kind = "computation"
                  /\ x \in Range(req[r].response.errors[i].metrics)

----------------------------------------------------------------------------
(* Properties of get_llm validation *)

ResolvedProvider == OrDefault(lastCall.args[1], config.DEFAULT_PROVIDER)

ResolvedModel == OrDefault(lastCall.args[2], config.DEFAULT_LLM_MODEL)

CatalogKeys ==
    UNION {{LlmCacheKey(p, m) : m \in SUPPORTED_MODELS[p].llm} : p \in DOMAIN SUPPORTED_MODELS}

\* What get_llm does: the catalog is checked first, and a handle is constructed
\* only with a credential; a cached handle is returned without looking at the
\* credential.
LlmValidated ==
    /\ lastCall.op = "get_llm" =>
          /\ ResolvedProvider \notin DOMAIN SUPPORTED_MODELS
                => lastCall.res.status = "UnsupportedProvider"
          /\ (ResolvedProvider \in DOMAIN SUPPORTED_MODELS
              /\ ResolvedModel \notin SUPPORTED_MODELS[ResolvedProvider].llm)
                => lastCall.res.status = "UnsupportedModel"
          /\ lastCall.res.status = "ok" =>
                /\ lastCall.res.key \in CatalogKeys
                /\ lastCall.res.constructed => lastCall.cred
    /\ DOMAIN model_manager.llm_cache \subseteq CatalogKeys

\* C11: get_llm returns a handle only for a catalog pair whose provider has a
\* credential configured at the call, and fails otherwise: unsupported provider
\* first, then unsupported model, then missing credential; every key of the LLM
\* cache is a catalog pair.
C11_LlmOnlyWithCatalogAndCredential ==
    /\ LlmValidated
    /\ (lastCall.op = "get_llm" /\ lastCall.res.status = "ok") => lastCall.cred

----------------------------------------------------------------------------
(* Properties of the similarity group without embeddings *)

Occurrences(r, m) == Cardinality({i \in DOMAIN req[r].metrics : req[r].metrics[i] = m})

\* C12: in a request that has no embeddings handle, semantic_similarity gets
\* null from the similarity group and no scoring call, the outcome lists it as
\* skipped and not in errors, and the text-overlap metrics of the same request
\* whose fields are there get their scoring calls and keep their scores.
C12_NoEmbeddingsSemanticNull ==
    \A r \in DOMAIN req :
        (req[r].kind = "endpoint" /\ req[r].handler # NoHandlers
         /\ req[r].handler.embeddings = NoHandle
         /\ "semantic_similarity" \in Requested(r)) =>
            /\ Calls(r, "semantic_similarity") = 0
            /\ "similarity" \in DOMAIN req[r].tasks
            /\ LET t == req[r].tasks["similarity"]
               IN  /\ t.st # "ready" =>
                        \A i \in 1..(t.idx - 1) : t.names[i] \in DOMAIN t.results
                   /\ \A i \in DOMAIN t.names :
                        (t.names[i] = "semantic_similarity" /\ (i < t.idx \/ t.st = "done"))
                            => t.results["semantic_similarity"] = Null
                   /\ t.st = "done" =>
                        \A m \in {"bleu_score", "rouge_score"} \cap Requested(r) :
                            ~MissingRequired(r, m) => Calls(r, m) = Occurrences(r, m)
            /\ Succeeded(r) =>
                  /\ req[r].response.metrics["semantic_similarity"] = Null
                  /\ "semantic_similarity" \in req[r].response.metrics_skipped
                  /\ "semantic_similarity" \notin UnsupportedNamesReported(r)
                  /\ \A i \in DOMAIN req[r].response.errors :
                        req[r].response.errors[i].kind = "unsupported"
                  /\ \A m \in {"bleu_score", "rouge_score"} \cap Requested(r) :
                        m \in req[r].scored \ req[r].raised
                            => req[r].response.metrics[m] = Number(m)

\* C12 witness: without embeddings, semantic_similarity is null and unscored
\* while rouge_score of the same request has its score.
C12_Witness ==
    \E r \in DOMAIN req :
        /\ Succeeded(r)
        /\ req[r].handler.embeddings = NoHandle
        /\ req[r].metrics = <<"semantic_similarity", "rouge_score">>
        /\ req[r].response.metrics["semantic_similarity"] = Null
        /\ Calls(r, "semantic_similarity") = 0
        /\ Calls(r, "rouge_score") = 1
        /\ req[r].response.metrics["rouge_score"] = Number("rouge_score")

----------------------------------------------------------------------------
(* Properties of a request whose model handle cannot be had *)

\* Config.METRIC_REQUIREMENTS needs_llm; the aspect critics are LLM judges.
NeedsLlm == get_all_supported_metrics \ SimilaritySupported

\* The request ended in a 500 because get_llm or get_embeddings raised.
AbortedForHandle(r) ==
    /\ req[r].kind = "endpoint" /\ req[r].pc = "responded"
    /\ req[r].response.status = "http500" /\ req[r].handler = NoHandlers

\* C13: a request fails for a model handle that cannot be constructed only when
\* every requested registry metric depends on that handle.
C13_AbortOnlyIfNeededByAll ==
    \A r \in DOMAIN req : AbortedForHandle(r) =>
        \A m \in Requested(r) \cap get_all_supported_metrics :
            IF lastCall.op = "get_llm" THEN m \in NeedsLlm ELSE m \in NeedsEmbeddings

----------------------------------------------------------------------------
(* Records that store a field under its alias key *)

\* The keys the legacy request model uses for the question, the response and
\* the reference (main.py EvaluationRequest).
Alias == [user_input |-> "question", response |-> "answer", reference |-> "ground_truth"]

AliasKeys == Range(Alias)

\* Records in which each of the question, response and reference is stored
\* under its own key, under its alias key only, or not at all.
AliasRecords ==
    {d \in [Fields \cup AliasKeys -> {"absent", "value"}] :
        \A f \in DOMAIN Alias : ~(d[f] = "value" /\ d[Alias[f]] = "value")}

\* Handler groups called directly with such records, one metric name a call.
NextAlias ==
    \/ \E r \in DOMAIN req : IsNew(r) /\
          \E g \in Groups, l \in Range(model_manager.llm_cache),
             e \in CachedEmbeddings, d \in AliasRecords,
             m \in RequestNames :
               DirectCalculate(r, g, d, <<m>>, l, e)
    \/ \E r \in DOMAIN req, g \in Groups : TaskRun(r, g)
    \/ \E r \in DOMAIN req, g \in Groups : \E o \in ScoreOutcomes(g) : ScoreReturn(r, g, o)
    \/ \E r \in DOMAIN req : DirectReturn(r)

SpecAlias == Init /\ [][NextAlias]_vars

\* The field is in the record under its own key or under its alias key.
Provided(d, f) ==
    \/ d[f] # "absent"
    \/ f \in DOMAIN Alias /\ Alias[f] \in DOMAIN d /\ d[Alias[f]] # "absent"

\* C14: a metric of a handler group whose required fields are all in the
\* record, under their own or their alias key, is scored by the group's
\* calculate and not recorded as null for a missing field.
C14_AliasProjected ==
    \A r \in DOMAIN req :
        (req[r].kind = "direct" /\ req[r].pc = "responded") =>
            \A g \in DOMAIN req[r].tasks : \A m \in Range(req[r].tasks[g].names) :
                (/\ m \in HandlerMetrics(g, req[r].handler)
                 /\ m \in get_supported_metrics(g)
                 /\ \A f \in get_metric_requirements[m] : Provided(req[r].data, f))
                => Calls(r, m) >= 1

\* The projection as it is: a metric is scored only when its required fields
\* are in the record under their own keys.
OwnKeysOnly ==
    \A r \in DOMAIN req :
        (req[r].kind = "direct" /\ req[r].pc = "responded") =>
            \A g \in DOMAIN req[r].tasks : \A m \in Range(req[r].tasks[g].names) :
                (m \in get_supported_metrics(g) /\ Calls(r, m) >= 1)
                    => \A f \in get_metric_requirements[m] : req[r].data[f] # "absent"

----------------------------------------------------------------------------
(* Properties of result coercion *)

\* What the groups store: an entry of a group's result mapping is null, a
\* number or, in the similarity group only, a mapping; for a metric none of
\* whose scoring calls raised, the entry is the mapping its call returned when
\* that was a mapping, and the number otherwise, and never null.
GroupResultCoercion ==
    \A r \in DOMAIN req : \A g \in DOMAIN req[r].tasks :
        LET t == req[r].tasks[g]
        IN  /\ \A k \in DOMAIN t.results :
                  /\ t.results[k] \in {Null, Number(k), Mapping(k)}
                  /\ t.results[k] = Mapping(k) => g = "similarity"
            /\ \A m \in DOMAIN req[r].returned :
                  (m \notin req[r].raised /\ m \in Range(t.names)) =>
                      /\ m \in DOMAIN t.results
                      /\ t.results[m] = IF req[r].returned[m] = "mapping"
                                        THEN Mapping(m) ELSE Number(m)
            /\ (req[r].kind = "direct" /\ req[r].pc = "responded")
                  => req[r].response.metrics = t.results

\* C15: the groups coerce as above, and the entry a group stored for a metric,
\* number or mapping, is the metric's entry in the outcome of the request.
C15_ResultCoercion ==
    /\ GroupResultCoercion
    /\ \A r \in DOMAIN req :
          (req[r].kind = "endpoint" /\ req[r].pc = "responded"
           /\ req[r].handler # NoHandlers) =>
              /\ req[r].response.status = "success"
              /\ \A g \in DOMAIN req[r].tasks : \A k \in DOMAIN req[r].tasks[g].results :
                    /\ k \in DOMAIN req[r].response.metrics
                    /\ req[r].response.metrics[k] = req[r].tasks[g].results[k]

----------------------------------------------------------------------------
(* Two evaluation requests on one service *)

PairRecords ==
    {[f \in Fields |-> "value"],
     [f \in Fields |-> IF f = "reference" THEN "absent" ELSE "value"]}

PairLists ==
    {<<"answer_relevancy">>, <<"faithfulness", "answer_relevancy">>,
     <<"answer_relevancy", "rouge_score">>, <<"context_precision">>}

\* Model selections: the defaults, and an Anthropic model.
PairConfigs == {c \in EvalConfigs : c.embeddings = NONE}

\* The service imported with both keys configured; two requests are made.
InitPair ==
    /\ config = DefaultConfig(TRUE, TRUE)
    /\ LET m == InitModelManager(config, "ok", "ok")
       IN  /\ model_manager = [llm_cache |-> m.llm_cache,
                               embedding_cache |-> m.embedding_cache]
           /\ nextHandle = m.next
           /\ issued = m.issued
    /\ lastCall = NoCall
    /\ callers = [c \in 1..NumCallers |-> IdleCaller]
    /\ evaluator = NoHandlers
    /\ req = <<NewReq, NewReq>>

\* The event loop runs the two requests interleaved at their awaits.
NextPair ==
    \/ \E r \in DOMAIN req : IsNew(r) /\
          \E d \in PairRecords, ms \in PairLists, c \in PairConfigs :
               StartEvaluate(r, d, ms, c, "ok", "ok")
    \/ \E r \in DOMAIN req, g \in Groups : TaskRun(r, g)
    \/ \E r \in DOMAIN req, g \in Groups : \E o \in ScoreOutcomes(g) : ScoreReturn(r, g, o)
    \/ \E r \in DOMAIN req : Respond(r)

SpecPair == InitPair /\ [][NextPair]_vars

----------------------------------------------------------------------------
(* Properties of clear_cache *)

\* C17: right after clear_cache neither cache holds a key; a get_llm or
\* get_embeddings call that then succeeds for a key the clear removed has
\* constructed a handle that did not exist before and has stored it under the
\* key.
C17_ClearEmptiesBoth ==
    /\ lastCall.op = "clear_cache" =>
          /\ model_manager.llm_cache = EmptyDict
          /\ model_manager.embedding_cache = EmptyDict
    /\ lastCall.recreated =>
          /\ lastCall.res.constructed
          /\ lastCall.res.handle.id = nextHandle - 1
          /\ CacheOf(model_manager, lastCall.op)
                = DictSet(EmptyDict, lastCall.res.key, lastCall.res.handle)
          /\ CacheOf(model_manager, IF lastCall.op = "get_llm" THEN "get_embeddings"
                                    ELSE "get_llm") = EmptyDict

\* C17 witness: the default embeddings handle, cached at import, was removed by
\* clear_cache together with an LLM handle and constructed anew by the next
\* call.
C17_Witness ==
    /\ lastCall.op = "get_embeddings" /\ lastCall.recreated
    /\ lastCall.res.key = "embeddings_text-embedding-ada-002"
    /\ lastCall.res.handle.id = 3

----------------------------------------------------------------------------
(* Properties of two requests in flight *)

\* The LLM cache key the model selection of the request resolves to.
SelectedLlmKey(r) ==
    LlmCacheKey(OrDefault(req[r].eval_config.provider, config.DEFAULT_PROVIDER),
                OrDefault(req[r].eval_config.evaluator_llm, config.DEFAULT_LLM_MODEL))

Launched(r) == req[r].kind = "endpoint" /\ req[r].handler # NoHandlers

\* C18: every scoring call of a request is made by the handler groups that were
\* built for that request, on the model handle its own selection resolves to,
\* whatever another request has done to the evaluator meanwhile; no two
\* requests are served by the same handler instances.
C18_HandlersRequestScoped ==
    \A r \in DOMAIN req : Launched(r) =>
        /\ req[r].handler.llm.key = SelectedLlmKey(r)
        /\ \A h \in req[r].usedBy :
              /\ h.llm.key = SelectedLlmKey(r)
              /\ h.serial = req[r].handler.serial
              /\ h = req[r].handler
        /\ \A r2 \in DOMAIN req \ {r} :
              Launched(r2) => req[r2].handler.serial # req[r].handler.serial

\* C18 witness: two requests with different model selections are in flight, the
\* evaluator holds the handlers of the second, and a scoring call of the first
\* is pending in the first's own handler.
C18_Witness ==
    /\ req[1].pc = "gathering" /\ req[2].pc = "gathering"
    /\ SelectedLlmKey(1) # SelectedLlmKey(2)
    /\ evaluator = req[2].handler /\ evaluator # req[1].handler
    /\ \E g \in DOMAIN req[1].tasks : req[1].tasks[g].st = "awaiting"
    /\ req[1].usedBy = {req[1].handler}
    /\ req[2].usedBy = {req[2].handler}

----------------------------------------------------------------------------
(* C19 *)

\* The groups of call r whose local results dict a step writes to.
Written(r) ==
    {g \in DOMAIN req[r].tasks \cap DOMAIN req'[r].tasks :
        req'[r].tasks[g].results # req[r].tasks[g].results}

\* Every coroutine gather was given has returned.
GatherComplete(r) ==
    \A g \in DOMAIN req[r].tasks : req[r].tasks[g].st = "done"

\* C19: a step of a group coroutine writes to the results dict of that one
\* group and to nothing the caller sees; the mapping of a response is written
\* in the one step that follows the return of every launched coroutine and is
\* the merge of all their dicts; and a call one of whose coroutines was
\* cancelled returns no mapping at all, whatever the other groups had produced.
C19_MergedOnlyAfterCompletion ==
    /\ [](\A r \in DOMAIN req : req[r].kind = "endpoint" =>
            /\ req[r].pc = "gathering" => req[r].response = NoResponse
            /\ req[r].response.status = "success" =>
                  /\ GatherComplete(r)
                  /\ req[r].response.metrics =
                        MergeResults(req[r].tasks, Len(EvaluatorGroups))
            /\ (\E g \in DOMAIN req[r].tasks : req[r].tasks[g].st = "cancelled") =>
                  /\ req[r].response.status = "cancelled"
                  /\ req[r].response.metrics = EmptyDict)
    /\ [][\A r \in DOMAIN req :
            /\ Cardinality(Written(r)) <= 1
            /\ Written(r) # {} => req'[r].response = req[r].response
            /\ (req[r].pc = "gathering" /\ req'[r].response # req[r].response) =>
                  /\ Written(r) = {}
                  /\ GatherComplete(r) \/ req'[r].response = Cancelled]_vars

\* A call was cancelled after one group had returned a non-empty dict and while
\* another was still running: the caller got no mapping.
C19_Witness ==
    \E r \in DOMAIN req :
        /\ req[r].pc = "cancelled"
        /\ \E g \in DOMAIN req[r].tasks :
              req[r].tasks[g].st = "done" /\ req[r].tasks[g].results # EmptyDict
        /\ \E g \in DOMAIN req[r].tasks : req[r].tasks[g].st = "cancelled"
        /\ req[r].response = Cancelled

----------------------------------------------------------------------------
(* C20 *)

\* The groups with a non-empty partition of the supported names of call r.
NonEmptyPartitions(r) ==
    {g \in Range(EvaluatorGroups) : Partition(ValidMetrics(req[r].metrics), g) # <<>>}

\* C20: once the handlers of a request are built, a calculate coroutine exists
\* for every group with a non-empty partition, and all of them exist, not yet
\* run, in the state in which gather is first awaited; from then on, while the
\* scoring call of one group is pending, a coroutine of another group that has
\* not run can be run and a pending scoring call of another group can return,
\* so a group suspended in a slow scoring call holds no other group back.
C20_GroupsRunConcurrently ==
    /\ [](\A r \in DOMAIN req :
            (req[r].kind = "endpoint" /\ req[r].handler # NoHandlers) =>
               /\ DOMAIN req[r].tasks = NonEmptyPartitions(r)
               /\ req[r].pc = "gathering" =>
                     \A g \in DOMAIN req[r].tasks : PendingBeside(r, g) # {} =>
                        /\ req[r].tasks[g].st = "ready" => ENABLED TaskRun(r, g)
                        /\ req[r].tasks[g].st = "awaiting" =>
                              ENABLED (\E o \in ScoreOutcomes(g) : ScoreReturn(r, g, o)))
    /\ [][\A r \in DOMAIN req :
            (req[r].pc = "new" /\ req'[r].pc = "gathering") =>
               \A g \in DOMAIN req'[r].tasks :
                  req'[r].tasks[g] =
                     NewTask(Partition(ValidMetrics(req'[r].metrics), g))]_vars

\* The scoring call of one group is pending while the other launched group has
\* run to its end, a scoring call of it having returned in the meantime.
C20_Witness ==
    \E r \in DOMAIN req : \E g, g2 \in DOMAIN req[r].tasks :
        /\ req[r].kind = "endpoint"
        /\ req[r].pc = "gathering"
        /\ g # g2
        /\ req[r].tasks[g].st = "awaiting"
        /\ req[r].tasks[g2].st = "done"
        /\ g2 \in req[r].overlapped
        /\ \E m \in DOMAIN req[r].tasks[g2].results :
              req[r].tasks[g2].results[m] # Null

----------------------------------------------------------------------------
(* C21 *)

\* The groups whose supported-metric list contains the name.
GroupsSupporting(m) == {g \in Groups : m \in get_supported_metrics(g)}

\* C21: every name of the registry is registered under one group, the one and
\* only group whose supported-metric list contains it, and the four lists
\* together are the registry's keys; so in an evaluation the results dicts of
\* two groups never have a key in common, and every entry of a returned mapping
\* is the entry of the one group that produced it.
C21_RegistryPartition ==
    /\ \A m \in DOMAIN METRIC_REGISTRY :
          /\ METRIC_REGISTRY[m] \in Groups
          /\ GroupsSupporting(m) = {METRIC_REGISTRY[m]}
    /\ UNION {get_supported_metrics(g) : g \in Groups} = DOMAIN METRIC_REGISTRY
    /\ \A g, g2 \in Groups :
          g # g2 => get_supported_metrics(g) \cap get_supported_metrics(g2) = {}
    /\ \A r \in DOMAIN req : req[r].kind = "endpoint" =>
          /\ \A g \in DOMAIN req[r].tasks :
                \A m \in DOMAIN req[r].tasks[g].results : METRIC_REGISTRY[m] = g
          /\ \A g, g2 \in DOMAIN req[r].tasks :
                g # g2 => DOMAIN req[r].tasks[g].results
                             \cap DOMAIN req[r].tasks[g2].results = {}
          /\ req[r].response.status = "success" =>
                /\ DOMAIN req[r].response.metrics =
                      UNION {DOMAIN req[r].tasks[g].results : g \in DOMAIN req[r].tasks}
                /\ \A g \in DOMAIN req[r].tasks :
                      \A m \in DOMAIN req[r].tasks[g].results :
                         req[r].response.metrics[m] = req[r].tasks[g].results[m]

\* A returned mapping merged from the non-empty dicts of two groups.
C21_Witness ==
    \E r \in DOMAIN req : \E g, g2 \in DOMAIN req[r].tasks :
        /\ req[r].kind = "endpoint"
        /\ req[r].response.status = "success"
        /\ g # g2
        /\ req[r].tasks[g].results # EmptyDict
        /\ req[r].tasks[g2].results # EmptyDict
        /\ DOMAIN req[r].response.metrics =
              DOMAIN req[r].tasks[g].results \cup DOMAIN req[r].tasks[g2].results

----------------------------------------------------------------------------
(* C22 *)

\* The sample is made of fields the metric requires or takes when present, each
\* with the value the record has for it.
ProjectionOf(sample, data, m) ==
    /\ DOMAIN sample \subseteq get_metric_requirements[m] \cup OptionalFields(m)
    /\ \A f \in DOMAIN sample : sample[f] = data[f]

----------------------------------------------------------------------------
(* C23 *)

\* C23: in a call whose handler groups were built without an embeddings handle,
\* no scoring call is started for a metric declared to need embeddings
\* (answer_relevancy, semantic_similarity), and the entry such a metric gets is
\* null.
C23_NeedsEmbeddingsNeverScored ==
    \A r \in DOMAIN req :
        (req[r].tasks # EmptyDict /\ req[r].handler.embeddings = NoHandle) =>
            \A m \in NeedsEmbeddings :
                /\ Calls(r, m) = 0
                /\ \A g \in DOMAIN req[r].tasks :
                      m \in DOMAIN req[r].tasks[g].results
                         => req[r].tasks[g].results[m] = Null

----------------------------------------------------------------------------
(* C24: the defaults of get_llm, with DEFAULT_PROVIDER and DEFAULT_LLM_MODEL
   as the environment may set them *)

\* Values of the DEFAULT_PROVIDER and DEFAULT_LLM_MODEL environment variables:
\* the built-in ones, an Anthropic pair, and a pair that does not match.
DefaultSettings ==
    {[provider |-> "openai", model |-> "gpt-4"],
     [provider |-> "anthropic", model |-> "claude-3-opus-20240229"],
     [provider |-> "anthropic", model |-> "gpt-4"]}

InitDefaults ==
    /\ \E d \in DefaultSettings, ok \in BOOLEAN, ak \in BOOLEAN :
          config = [DefaultConfig(ok, ak) EXCEPT !.DEFAULT_PROVIDER = d.provider,
                                                 !.DEFAULT_LLM_MODEL = d.model]
    /\ \E cl \in CtorOutcomes :
         LET m == InitModelManager(config, cl, "ok")
         IN  /\ model_manager = [llm_cache |-> m.llm_cache,
                                 embedding_cache |-> m.embedding_cache]
             /\ nextHandle = m.next
             /\ issued = m.issued
    /\ lastCall = NoCall
    /\ callers = [c \in 1..NumCallers |-> IdleCaller]
    /\ evaluator = NoHandlers
    /\ req = <<>>

NextDefaults ==
    \/ \E p \in ProviderArgs, m \in LlmArgs, c \in CtorOutcomes : GetLlm(p, m, c)
    \/ ClearCache
    \/ \E p \in {"openai", "anthropic"}, b \in BOOLEAN : SetCredential(p, b)

SpecDefaults == InitDefaults /\ [][NextDefaults]_vars

\* The arguments of a get_llm call with the configured default in the place of
\* each omitted one.
Substituted(args) ==
    <<OrDefault(args[1], config.DEFAULT_PROVIDER),
      OrDefault(args[2], config.DEFAULT_LLM_MODEL)>>

\* C24: whatever the cache holds, get_llm with an argument omitted gives the
\* result and the cache that get_llm gives with the configured default in its
\* place, each argument resolved on its own; every get_llm call made is the
\* call with the substituted arguments; and a get_llm call whose substituted
\* arguments are those of the successful call before it returns that call's
\* handle.
C24_DefaultsSubstituted ==
    /\ [](\A p \in ProviderArgs, m \in LlmArgs, c \in CtorOutcomes :
             get_llm(model_manager.llm_cache, config, nextHandle, p, m, c)
                = get_llm(model_manager.llm_cache, config, nextHandle,
                          Substituted(<<p, m>>)[1], Substituted(<<p, m>>)[2], c))
    /\ [][(lastCall'.op = "get_llm" /\ lastCall'.tick # lastCall.tick) =>
            /\ \E c \in CtorOutcomes :
                  LET s == get_llm(model_manager.llm_cache, config, nextHandle,
                                   Substituted(lastCall'.args)[1],
                                   Substituted(lastCall'.args)[2], c)
                  IN  /\ lastCall'.res = s.res
                      /\ model_manager'.llm_cache = s.cache
            /\ (lastCall.op = "get_llm" /\ lastCall.res.status = "ok"
                /\ Substituted(lastCall'.args) = Substituted(lastCall.args)) =>
                  /\ lastCall'.res.status = "ok"
                  /\ lastCall'.res.handle = lastCall.res.handle]_vars

\* get_llm(DEFAULT_PROVIDER, DEFAULT_LLM_MODEL), with defaults other than the
\* built-in ones, returned the handle the get_llm() of the import had built.
C24_Witness ==
    /\ config.DEFAULT_PROVIDER = "anthropic"
    /\ lastCall.op = "get_llm"
    /\ lastCall.args = <<config.DEFAULT_PROVIDER, config.DEFAULT_LLM_MODEL>>
    /\ lastCall.res.status = "ok"
    /\ ~lastCall.res.constructed
    /\ lastCall.res.handle.id = 1
    /\ lastCall.retryOf = "none"

----------------------------------------------------------------------------
(* C25 *)

\* Scoring calls started so far for the names in S, in call r.
RECURSIVE StartedFor(_, _)
StartedFor(r, S) ==
    IF S = {} THEN 0
    ELSE LET m == CHOOSE x \in S : TRUE
         IN  Calls(r, m) + StartedFor(r, S \ {m})

\* The positions of the list of group g before position i whose scoring call
\* has returned or raised.
ScoredPositions(r, g, i) ==
    {j \in 1..(i - 1) : req[r].tasks[g].names[j] \in req[r].scored \cup req[r].raised}

\* Scoring calls of group g that have started and not yet returned or raised.
InFlight(r, g) ==
    StartedFor(r, Range(req[r].tasks[g].names))
        - Cardinality(ScoredPositions(r, g, req[r].tasks[g].idx))

\* C25: in every state at most one scoring call of a group is in flight, and
\* it is the call for the name the loop stands at; every name before it that
\* the group scores has its entry, and no name that occurs only after it has
\* had a call; a step starts at most one call of a group, never moves the loop
\* backwards, and when it starts a call while another was in flight, the name
\* of that other call has its entry by then.
C25_ScoringCallsInOrder ==
    /\ [](\A r \in DOMAIN req : \A g \in DOMAIN req[r].tasks :
            LET t == req[r].tasks[g]
                n == InFlight(r, g)
            IN  /\ n \in {0, 1}
                /\ t.st = "awaiting" => n = 1
                /\ t.st \in {"ready", "done"} => n = 0
                /\ t.st = "awaiting" =>
                      t.names[t.idx] \in HandlerMetrics(g, req[r].handler)
                /\ t.st # "ready" =>
                      \A j \in ScoredPositions(r, g, t.idx) : t.names[j] \in DOMAIN t.results
                /\ \A j \in DOMAIN t.names :
                      (j > t.idx /\ \A k \in 1..t.idx : t.names[k] # t.names[j])
                         => Calls(r, t.names[j]) = 0)
    /\ [][\A r \in DOMAIN req :
            LET started == {m \in DOMAIN req'[r].calls : Calls(r, m)' # Calls(r, m)}
            IN  /\ Cardinality(started) <= 1
                /\ \A m \in started :
                      /\ Calls(r, m)' = Calls(r, m) + 1
                      /\ \E g \in DOMAIN req'[r].tasks :
                            /\ req'[r].tasks[g].st = "awaiting"
                            /\ req'[r].tasks[g].names[req'[r].tasks[g].idx] = m
                            /\ (g \in DOMAIN req[r].tasks
                                /\ req[r].tasks[g].st = "awaiting") =>
                                  /\ req'[r].tasks[g].idx > req[r].tasks[g].idx
                                  /\ req[r].tasks[g].names[req[r].tasks[g].idx]
                                        \in DOMAIN req'[r].tasks[g].results
                /\ \A g \in DOMAIN req[r].tasks \cap DOMAIN req'[r].tasks :
                      req'[r].tasks[g].idx >= req[r].tasks[g].idx]_vars

\* A group given two names is suspended in the scoring call of the second one,
\* the first having its entry from a call that returned or raised.
C25_Witness ==
    \E r \in DOMAIN req : \E g \in DOMAIN req[r].tasks :
        LET t == req[r].tasks[g]
        IN  /\ t.st = "awaiting"
            /\ t.idx = 2
            /\ t.names[1] # t.names[2]
            /\ Calls(r, t.names[1]) = 1
            /\ Calls(r, t.names[2]) = 1
            /\ t.names[1] \in DOMAIN t.results

----------------------------------------------------------------------------
(* C26: termination, under the scheduling of the event loop *)

\* The event loop runs every coroutine that is ready, every scoring call that
\* was started returns or raises, and a coroutine whose awaited calls are all
\* over is resumed.
Fairness ==
    /\ WF_vars(\E r \in DOMAIN req, g \in Groups : TaskRun(r, g))
    /\ WF_vars(\E r \in DOMAIN req, g \in Groups :
                  \E o \in ScoreOutcomes(g) : ScoreReturn(r, g, o))
    /\ WF_vars(\E r \in DOMAIN req : Respond(r))
    /\ WF_vars(\E r \in DOMAIN req : DirectReturn(r))

\* The records and metric lists of the calls whose termination is checked:
\* lists of one, two and three groups, with a name of no registry, names of the
\* aspect group, and no name at all; records that are whole, lack a key, or
\* have an empty value.
LiveRecords ==
    PairRecords \cup {[f \in Fields |-> IF f = "response" THEN "empty" ELSE "value"]}

LiveLists ==
    {<<>>, <<"bogus_metric">>,
     <<"faithfulness", "answer_relevancy", "context_recall">>,
     <<"semantic_similarity", "rouge_score">>,
     <<"context_precision", "bogus_metric", "rouge_score">>,
     <<"coherence", "harmfulness">>}

NextLive ==
    \/ \E r \in DOMAIN req : IsNew(r) /\
          \E d \in LiveRecords, ms \in LiveLists, c \in EvalConfigs,
             cl \in CtorOutcomes, ce \in CtorOutcomes :
               StartEvaluate(r, d, ms, c, cl, ce)
    \/ \E r \in DOMAIN req : IsNew(r) /\
          \E g \in Groups, l \in Range(model_manager.llm_cache),
             e \in CachedEmbeddings,
             d \in LiveRecords, ms \in LiveLists :
               DirectCalculate(r, g, d, ms, l, e)
    \/ \E r \in DOMAIN req, g \in Groups : TaskRun(r, g)
    \/ \E r \in DOMAIN req, g \in Groups : \E o \in ScoreOutcomes(g) : ScoreReturn(r, g, o)
    \/ \E r \in DOMAIN req : Respond(r)
    \/ \E r \in DOMAIN req : DirectReturn(r)
    \/ \E r \in DOMAIN req : GatherCancelled(r)

SpecLive == Init /\ [][NextLive]_vars /\ Fairness

\* C26: when every scoring call that is started returns or raises, a call that
\* has launched its group calls comes to its end: it returns its outcome, or,
\* if the request was cancelled meanwhile, ends cancelled; and since nothing
\* bounds the time gather is awaited, an outcome is never there before every
\* launched group call has returned.
C26_EvaluateTerminates ==
    /\ (req[1].pc \in {"gathering", "calculating"})
          ~> (req[1].pc \in {"responded", "cancelled"})
    /\ [](\A r \in DOMAIN req :
             (req[r].pc = "responded" /\ req[r].response.status \in {"success", "returned"})
                => \A g \in DOMAIN req[r].tasks : req[r].tasks[g].st = "done")
    /\ [][\A r \in DOMAIN req :
             (req[r].pc \in {"gathering", "calculating"} /\ req'[r].pc = "responded")
                => \A g \in DOMAIN req[r].tasks : req[r].tasks[g].st = "done"]_vars

\* A call returned its outcome after two groups had each been suspended in a
\* scoring call.
C26_Witness ==
    \E r \in DOMAIN req :
        /\ req[r].kind = "endpoint"
        /\ req[r].pc = "responded"
        /\ req[r].response.status = "success"
        /\ Cardinality(DOMAIN req[r].tasks) = 2
        /\ \A g \in DOMAIN req[r].tasks :
              \E m \in Range(req[r].tasks[g].names) : Calls(r, m) > 0

----------------------------------------------------------------------------
(* main.py: the single-record evaluate endpoint *)

\* The names main.py finds in the registry it imports, and those of them it
\* finds in METRICS_WITH_GROUND_TRUTH: the names test_api.py posts, of which
\* the two it posts with a ground_truth read data["ground_truth"].
LegacyRegistry ==
    {"answer_relevancy", "coherence", "conciseness", "answer_similarity",
     "answer_correctness"}

METRICS_WITH_GROUND_TRUTH == {"answer_similarity", "answer_correctness"}

\* The module globals llm and embeddings after import: initialize_models
\* raises ValueError without an API key or when a client constructor raises,
\* and both are then None.
LegacyModels(cfg, ctor) ==
    IF cfg.OPENAI_API_KEY /\ ctor = "ok"
    THEN [llm |-> Handle(1, "ChatOpenAI"), embeddings |-> Handle(2, "OpenAIEmbeddings"),
          serial |-> 0]
    ELSE NoHandlers

\* EvaluateRequest: question, answer, an optional ground_truth, metrics.
LegacyRequests ==
    [question : {"value"}, answer : {"value"}, ground_truth : {NONE, "", "value"},
     metrics : UNION {[1..n -> LegacyRegistry \cup {"bogus_metric"}] : n \in 0..MaxMetrics}]

\* What one pass of the loop body does: the metric class constructor raises,
\* metric.calculate raises, or a score is returned.
LegacyOutcomes == {"construct_raises", "calculate_raises", "score"}

\* BaseMetric.calculate: the score of ragas evaluate as a float; any exception
\* of prepare_data, Dataset.from_dict or evaluate is raised again with the
\* text "Error calculating <name>: <text>".
LegacyCalculate(metric_name, outcome) ==
    IF outcome = "score"
    THEN [raised |-> FALSE, value |-> Number(metric_name)]
    ELSE [raised |-> TRUE, value |-> "Error calculating " \o metric_name]

\* One pass of the loop body: the try block and its except clause.
LegacyIteration(acc, metric_name, outcome) ==
    IF outcome = "construct_raises"
    THEN [acc EXCEPT !.errors = DictSet(@, metric_name, "Error constructing " \o metric_name)]
    ELSE LET c == LegacyCalculate(metric_name, outcome)
         IN  IF c.raised
             THEN [acc EXCEPT !.errors = DictSet(@, metric_name, c.value)]
             ELSE [acc EXCEPT !.scores = DictSet(@, metric_name, c.value)]

\* for metric_name in request.metrics, from pass i on.
RECURSIVE LegacyLoop(_, _, _, _)
LegacyLoop(acc, metrics, outcomes, i) ==
    IF i > Len(metrics)
    THEN acc
    ELSE LegacyLoop(LegacyIteration(acc, metrics[i], outcomes[i]), metrics, outcomes, i + 1)

\* A request that has not been made.
NewLegacy ==
    [pc |-> "new", request |-> [question |-> NONE, answer |-> NONE,
                                ground_truth |-> NONE, metrics |-> <<>>],
     outcomes |-> <<>>, response |-> [status |-> "none"]]

\* POST /evaluate, the whole handler (it suspends nowhere): the three checks
\* that raise HTTPException, the loop, the response with its errors key only
\* when an error was recorded.  `outcomes` is what each pass of the loop will
\* do; no pass is made when a check raises.
LegacyEvaluate(r, request, outcomes) ==
    LET invalid_metrics == {i \in DOMAIN request.metrics :
                               request.metrics[i] \notin LegacyRegistry}
        needs_ground_truth == \E i \in DOMAIN request.metrics :
                                 request.metrics[i] \in METRICS_WITH_GROUND_TRUTH
        done == LegacyLoop([scores |-> EmptyDict, errors |-> EmptyDict],
                           request.metrics, outcomes, 1)
        response ==
            IF evaluator.llm = NoHandle \/ evaluator.embeddings = NoHandle
            THEN [status |-> "http503"]
            ELSE IF invalid_metrics # {}
            THEN [status |-> "http400"]
            ELSE IF needs_ground_truth /\ OrDefault(request.ground_truth, NONE) = NONE
            THEN [status |-> "http400"]
            ELSE IF done.errors # EmptyDict
            THEN [status |-> "ok", scores |-> done.scores, errors |-> done.errors]
            ELSE [status |-> "ok", scores |-> done.scores]
    IN  /\ req[r].pc = "new"
        /\ Len(outcomes) = Len(request.metrics)
        /\ req' = [req EXCEPT ![r] =
                      [pc |-> "responded", request |-> request,
                       outcomes |-> IF response.status = "ok" THEN outcomes ELSE <<>>,
                       response |-> response]]
        /\ UNCHANGED <<config, model_manager, nextHandle, issued, lastCall, callers,
                       evaluator>>

\* The legacy service after import, with or without an API key and with
\* client constructors that succeed or raise; two requests are made.
InitLegacy ==
    /\ \E ok \in BOOLEAN : config = DefaultConfig(ok, FALSE)
    /\ model_manager = [llm_cache |-> EmptyDict, embedding_cache |-> EmptyDict]
    /\ nextHandle = 1
    /\ issued = EmptyDict
    /\ lastCall = NoCall
    /\ callers = [c \in 1..NumCallers |-> IdleCaller]
    /\ \E ctor \in CtorOutcomes : evaluator = LegacyModels(config, ctor)
    /\ req = <<NewLegacy>>

NextLegacy ==
    \E r \in DOMAIN req, request \in LegacyRequests :
        \E outcomes \in [DOMAIN request.metrics -> LegacyOutcomes] :
            LegacyEvaluate(r, request, outcomes)

SpecLegacy == InitLegacy /\ [][NextLegacy]_vars

\* The requests that passed validation and were answered.
LegacyAnswered(r) == req[r].pc = "responded" /\ req[r].response.status = "ok"

LegacyErrors(r) ==
    IF "errors" \in DOMAIN req[r].response THEN req[r].response.errors ELSE EmptyDict

LegacyEveryNameRecorded ==
    \A r \in DOMAIN req : LegacyAnswered(r) =>
        LET scores == req[r].response.scores
            errors == LegacyErrors(r)
        IN  /\ DOMAIN scores \cup DOMAIN errors = Range(req[r].request.metrics)
            /\ \A i \in DOMAIN req[r].outcomes :
                  IF req[r].outcomes[i] = "score"
                  THEN req[r].request.metrics[i] \in DOMAIN scores
                  ELSE req[r].request.metrics[i] \in DOMAIN errors
            /\ (\A i, j \in DOMAIN req[r].outcomes :
                   req[r].request.metrics[i] = req[r].request.metrics[j] => i = j)
                  => DOMAIN scores \cap DOMAIN errors = {}

\* A name requested twice whose first pass returned a score and whose second
\* pass raised.
LegacyScoredAndFailed ==
    \E r \in DOMAIN req :
        /\ LegacyAnswered(r)
        /\ \E i, j \in DOMAIN req[r].outcomes :
              /\ i < j
              /\ req[r].request.metrics[i] = req[r].request.metrics[j]
              /\ req[r].outcomes[i] = "score"
              /\ req[r].outcomes[j] = "calculate_raises"

====
